---- MODULE Spec2Model ----
(***************************************************************************)
(* A model of the POF codec of io_scene_pof/pof.py (branch bpof): the      *)
(* binary primitive codec, the BSP block and chunk codecs, the submodel    *)
(* BSP builder, PolyModel with verify_pof, and read_pof / write_pof.       *)
(*                                                                         *)
(* Numbers.  Python floats are modelled as integers (fixed point).  In the *)
(* geometry of the BSP builder one length unit is 0.0025, so that the      *)
(* 0.1 margin of _get_bounds is 40 units and the 0.01 nudge of the         *)
(* recovery loop is 4 units; a float division is the integer division,     *)
(* which rounds as a float operation does when the exact quotient is not   *)
(* representable.  Sequences are 1-based, so axis 0/1/2 of the code is     *)
(* axis 1/2/3 here.                                                        *)
(***************************************************************************)
EXTENDS Integers, Sequences, FiniteSets, TLC

(***************************************************************************)
(* Bounds of the model.                                                    *)
(***************************************************************************)
MaxFaces == 4
MaxDepth == 7
MaxAddr == 7
MaxEdges == 3
MaxNodes == 3

(***************************************************************************)
(* Program constants.                                                      *)
(***************************************************************************)
BoundsMargin == 40
NudgeStep == 4
MaxRealTries == 500
MaxBalanceTries == 15
Tolerance == 40

VARIABLES
    bInput,      \* the face list handed to the builder (kept for reference)
    bsp_tree,    \* ModelChunk.bsp_tree
    stack,       \* call stack of _generate_tree_recursion, innermost last
    bstatus,     \* "running" | "done" | "RecursionError"
    backStart,   \* history: node index of a SortNorm -> index at which its
                 \* back subtree began to be emitted
    shield_tree, \* TreeChunk.shield_tree
    leaf_faces,  \* the class attribute ShieldLeaf.face_list
    cObj,        \* a chunk or block object
    cOut,        \* what write_chunk did on cObj: the exception and the bytes
    cBack,       \* the object read_chunk made of those bytes
    cPc,         \* "new" | "written" | "read"
    fSrc,        \* the chunk list and version a PolyModel is made of
    fTarget,     \* the version handed to verify_pof and write_pof
    fModel,      \* the PolyModel
    fPrev,       \* history: the PolyModel before the last operation
    fErr,        \* the exception the last operation raised, "none" if none
    fOut1,       \* the bytes of the first write_pof
    fOut2,       \* the bytes of the second write_pof
    fPc          \* the operations done so far

svars == <<shield_tree, leaf_faces>>
bvars == <<bInput, bsp_tree, stack, bstatus, backStart, svars>>
cvars == <<cObj, cOut, cBack, cPc>>
fvars == <<fSrc, fTarget, fModel, fPrev, fErr, fOut1, fOut2, fPc>>
vars == << bvars, cvars, fvars >>

\* the variables of a part of the program that a specification leaves out
BspIdle ==
    /\ bInput = <<>> /\ bsp_tree = <<>> /\ stack = <<>>
    /\ bstatus = "off" /\ backStart = <<>>
    /\ shield_tree = <<>> /\ leaf_faces = <<>>

CodecIdle ==
    /\ cObj = <<>> /\ cOut = <<>> /\ cBack = <<>> /\ cPc = "off"

FileIdle ==
    /\ fSrc = <<>> /\ fTarget = 0 /\ fModel = <<>> /\ fPrev = <<>>
    /\ fErr = "none" /\ fOut1 = <<>> /\ fOut2 = <<>> /\ fPc = "off"

(***************************************************************************)
(* Small helpers.                                                          *)
(***************************************************************************)
SetMax(S) == CHOOSE x \in S : \A y \in S : y <= x
SetMin(S) == CHOOSE x \in S : \A y \in S : x <= y

RECURSIVE SumSeq(_)
SumSeq(s) == IF s = <<>> THEN 0 ELSE Head(s) + SumSeq(Tail(s))

RECURSIVE Concat(_)
Concat(ss) == IF ss = <<>> THEN <<>> ELSE Head(ss) \o Concat(Tail(ss))

(***************************************************************************)
(* Binary primitive codec (bintools of io_scene_pof, little endian).       *)
(***************************************************************************)
Byte4(x) ==
    LET y == IF x < 0 THEN x + 2147483647 + 1 ELSE x
        hi == (y \div 16777216) + (IF x < 0 THEN 128 ELSE 0)
    IN  << y % 256, (y \div 256) % 256, (y \div 65536) % 256, hi >>

Byte2(x) == << x % 256, (x \div 256) % 256 >>

Val4(b) ==
    IF Len(b) # 4 THEN 0
    ELSE (IF b[4] >= 128 THEN (b[4] - 256) ELSE b[4]) * 16777216
         + b[3] * 65536 + b[2] * 256 + b[1]

Val2(b) == IF Len(b) # 2 THEN 0 ELSE b[2] * 256 + b[1]

pack_int(x) == Byte4(x)
pack_uint(x) == Byte4(x)
pack_float(x) == Byte4(x)
pack_ushort(x) == Byte2(x)
pack_byte(x) == << x % 256 >>
pack_ubyte(x) == << x % 256 >>

RECURSIVE pack_ints(_)
pack_ints(xs) == IF xs = <<>> THEN <<>> ELSE Byte4(Head(xs)) \o pack_ints(Tail(xs))

pack_vector(v) == pack_ints(v)
pack_floats(xs) == pack_ints(xs)

RECURSIVE pack_ubytes(_)
pack_ubytes(xs) == IF xs = <<>> THEN <<>> ELSE << Head(xs) % 256 >> \o pack_ubytes(Tail(xs))

pack_string(s) == Byte4(Len(s)) \o s

unpack_int(b) == Val4(b)
unpack_uint(b) == Val4(b)
unpack_float(b) == Val4(b)
unpack_ushort(b) == Val2(b)
unpack_byte(b) == IF Len(b) # 1 THEN 0 ELSE b[1]
unpack_ubyte(b) == IF Len(b) # 1 THEN 0 ELSE b[1]

\* 12 bytes give one vector; a longer multiple of 12 gives a tuple of vectors;
\* any other length gives the empty tuple
unpack_vector(b) ==
    IF Len(b) = 12
      THEN << Val4(SubSeq(b, 1, 4)), Val4(SubSeq(b, 5, 8)), Val4(SubSeq(b, 9, 12)) >>
    ELSE IF Len(b) > 12 /\ Len(b) % 12 = 0
      THEN [i \in 1..(Len(b) \div 12) |->
              << Val4(SubSeq(b, 12 * i - 11, 12 * i - 8)),
                 Val4(SubSeq(b, 12 * i - 7, 12 * i - 4)),
                 Val4(SubSeq(b, 12 * i - 3, 12 * i)) >>]
    ELSE <<>>

RECURSIVE unpack_ubytes(_)
unpack_ubytes(b) == IF b = <<>> THEN <<>> ELSE << Head(b) >> \o unpack_ubytes(Tail(b))

(***************************************************************************)
(* RawData: a byte slice with a cursor.  addr is the 0-based cursor.        *)
(* RawRead is the value read(length) returns at cursor addr: the whole     *)
(* data when length is 0, else the slice data[addr : addr+length]; the     *)
(* cursor afterwards is addr + length.  FileRead is the same for the file  *)
(* object handed to read_pof: a negative length reads to the end and a     *)
(* zero length reads nothing.                                              *)
(***************************************************************************)
PyClamp(i, n) == IF i < 0 THEN (IF n + i < 0 THEN 0 ELSE n + i) ELSE (IF i > n THEN n ELSE i)

\* data[start:stop] of Python
PySlice(data, start, stop) ==
    LET lo == PyClamp(start, Len(data))
        hi == PyClamp(stop, Len(data))
    IN  IF hi <= lo THEN <<>> ELSE SubSeq(data, lo + 1, hi)

RawReadRest(data, addr, length) ==
    IF length = 0 THEN PySlice(data, addr, Len(data)) ELSE PySlice(data, addr, addr + length)

\* the bytes RawData.read(length) returns at address addr
RawRead(data, addr, length) ==
    IF length = 0 THEN data ELSE PySlice(data, addr, addr + length)

FileRead(data, pos, length) ==
    IF pos >= Len(data) THEN <<>>
    ELSE IF length < 0 THEN SubSeq(data, pos + 1, Len(data))
    ELSE IF pos + length >= Len(data) THEN SubSeq(data, pos + 1, Len(data))
    ELSE SubSeq(data, pos + 1, pos + length)

\* range(n) of Python has no element when n is negative
Count(n) == IF n < 0 THEN 0 ELSE n

(***************************************************************************)
(* BSP blocks.                                                             *)
(***************************************************************************)
EndBlock == [CHUNK_ID |-> 0]

EndBlockLen(b) == 8
DefpointsLen(b) ==
    20 + SumSeq([i \in 1..Len(b.vert_norms) |-> 13 + 12 * Len(b.vert_norms[i])])
TexpolyLen(b) == 44 + 12 * Len(b.vert_list)
SortnormLen(b) == 80
BoundboxLen(b) == 32

\* len(block) for the block types whose __len__ returns a number
BlockLen(b) ==
    CASE b.CHUNK_ID = 0 -> EndBlockLen(b)
      [] b.CHUNK_ID = 1 -> DefpointsLen(b)
      [] b.CHUNK_ID = 3 -> TexpolyLen(b)
      [] b.CHUNK_ID = 4 -> SortnormLen(b)
      [] b.CHUNK_ID = 5 -> BoundboxLen(b)

EndBlockWrite(b) == << 0, 0, 0, 0, 0, 0, 0, 0 >>

DefpointsWrite(b) ==
    LET n == Len(b.vert_list)
        num_norms == SumSeq([i \in 1..Len(b.vert_norms) |-> Len(b.vert_norms[i])])
    IN  pack_int(1) \o pack_int(DefpointsLen(b))
        \o pack_int(n) \o pack_int(num_norms) \o pack_int(20 + n)
        \o Concat([i \in 1..Len(b.vert_norms) |-> pack_byte(Len(b.vert_norms[i]))])
        \o Concat([i \in 1..Len(b.vert_norms) |->
                     pack_vector(b.vert_list[i])
                     \o Concat([j \in 1..Len(b.vert_norms[i]) |-> pack_vector(b.vert_norms[i][j])])])

TexpolyWrite(b) ==
    pack_int(3) \o pack_int(TexpolyLen(b))
    \o pack_vector(b.normal) \o pack_vector(b.center) \o pack_float(b.radius)
    \o pack_int(Len(b.vert_list)) \o pack_int(b.texture_id)
    \o Concat([i \in 1..Len(b.vert_list) |->
                 pack_ushort(b.vert_list[i]) \o pack_ushort(b.norm_list[i])
                 \o pack_float(b.u[i]) \o pack_float(b.v[i])])

SortnormWrite(b) ==
    pack_int(4) \o pack_int(80)
    \o pack_vector(b.plane_normal) \o pack_vector(b.plane_point)
    \o << 0, 0, 0, 0 >>
    \o pack_int(b.front_offset) \o pack_int(b.back_offset)
    \o pack_int(b.prelist_offset) \o pack_int(b.postlist_offset)
    \o pack_int(b.online_offset)
    \o pack_vector(b.min) \o pack_vector(b.max)

BoundboxWrite(b) ==
    pack_int(5) \o pack_int(32) \o pack_vector(b.min) \o pack_vector(b.min)

\* FlatpolyBlock.__len__ (line 2440) reads vert_list, a name it does not
\* have, and NameError is no AttributeError: len(block) raises, and so does
\* write_chunk, which calls it first
BlockRaises(b) == b.CHUNK_ID = 2

\* block.write_chunk() for the block types above
BlockWrite(b) ==
    CASE b.CHUNK_ID = 0 -> EndBlockWrite(b)
      [] b.CHUNK_ID = 1 -> DefpointsWrite(b)
      [] b.CHUNK_ID = 3 -> TexpolyWrite(b)
      [] b.CHUNK_ID = 4 -> SortnormWrite(b)
      [] b.CHUNK_ID = 5 -> BoundboxWrite(b)

(***************************************************************************)
(* Chunk tags.  A CHUNK_ID is kept as a string; TagBytes gives its four    *)
(* bytes.  chunk_dict knows the tags of TagBytes (of the chunk classes     *)
(* modelled here).                                                         *)
(***************************************************************************)
TagBytes ==
    [HDR2 |-> << 72, 68, 82, 50 >>,
     OHDR |-> << 79, 72, 68, 82 >>,
     TXTR |-> << 84, 88, 84, 82 >>,
     PINF |-> << 80, 73, 78, 70 >>,
     FUEL |-> << 70, 85, 69, 76 >>,
     SOBJ |-> << 83, 79, 66, 74 >>,
     OBJ2 |-> << 79, 66, 74, 50 >>,
     ACEN |-> << 65, 67, 69, 78 >>,
     SLDC |-> << 83, 76, 68, 67 >>]
    @@ (" EYE" :> << 32, 69, 89, 69 >>) @@ ("EYE " :> << 69, 89, 69, 32 >>)

Tags == DOMAIN TagBytes

chunk_dict ==
    [HDR2 |-> "HeaderChunk", OHDR |-> "HeaderChunk", TXTR |-> "TextureChunk",
     PINF |-> "MiscChunk", FUEL |-> "FuelChunk", SOBJ |-> "ModelChunk",
     OBJ2 |-> "ModelChunk", ACEN |-> "CenterChunk", SLDC |-> "TreeChunk"]
    @@ (" EYE" :> "EyeChunk") @@ ("EYE " :> "EyeChunk")

chunk_order ==
    [TXTR |-> 0, HDR2 |-> 1, OHDR |-> 1, SPCL |-> 2, GPNT |-> 3, MPNT |-> 4,
     TGUN |-> 5, TMIS |-> 6, DOCK |-> 7, FUEL |-> 8, SHLD |-> 9,
     ACEN |-> 11, PATH |-> 12, GLOW |-> 13, SLDC |-> 14, PINF |-> 15]
    @@ (" EYE" :> 10) @@ ("EYE " :> 10)

\* the result of write_chunk: the exception raised ("none" if none) and the
\* bytes returned
Raised(e) == [err |-> e, bytes |-> <<>>]
Written(b) == [err |-> "none", bytes |-> b]

(***************************************************************************)
(* HeaderChunk.  has_mass, has_xsect and has_lights tell whether the       *)
(* object has the attributes that read_chunk sets only from some version   *)
(* on.                                                                     *)
(***************************************************************************)
HeaderInit(pof_ver) == IF pof_ver >= 2116 THEN "HDR2" ELSE "OHDR"

HeaderRead(d, pof_ver) ==
    LET I(a) == unpack_int(RawRead(d, a, 4))
        F(a) == unpack_float(RawRead(d, a, 4))
        V(a) == unpack_vector(RawRead(d, a, 12))
        nd == I(36)
        a1 == 40 + 4 * Count(nd)
        ndeb == I(a1)
        a2 == a1 + 4 + 4 * Count(ndeb)
        a3 == IF pof_ver >= 1903 THEN a2 + 52 ELSE a2
        nx == IF pof_ver >= 2014 THEN I(a3) ELSE 0
        a4 == IF pof_ver >= 2014 THEN a3 + 4 + 8 * Count(nx) ELSE a3
        nl == IF pof_ver >= 2007 THEN I(a4) ELSE 0
    IN  [cls |-> "HeaderChunk",
         CHUNK_ID |-> HeaderInit(pof_ver),
         pof_ver |-> pof_ver,
         max_radius |-> IF pof_ver >= 2116 THEN F(0) ELSE F(4),
         obj_flags |-> IF pof_ver >= 2116 THEN I(4) ELSE I(8),
         num_subobjects |-> IF pof_ver >= 2116 THEN I(8) ELSE I(0),
         min_bounding |-> V(12),
         max_bounding |-> V(24),
         num_detail_levels |-> nd,
         sobj_detail_levels |-> [i \in 1..nd |-> I(36 + 4 * i)],
         num_debris |-> ndeb,
         sobj_debris |-> [i \in 1..ndeb |-> I(a1 + 4 * i)],
         has_mass |-> pof_ver >= 1903,
         mass |-> IF pof_ver >= 1903 THEN F(a2) ELSE 0,
         mass_center |-> IF pof_ver >= 1903 THEN V(a2 + 4) ELSE <<>>,
         inertia_tensor |->
             IF pof_ver >= 1903 THEN unpack_vector(RawRead(d, a2 + 16, 36)) ELSE <<>>,
         has_xsect |-> pof_ver >= 2014,
         cross_section_depth |-> [i \in 1..nx |-> F(a3 + 8 * i - 4)],
         cross_section_radius |-> [i \in 1..nx |-> F(a3 + 8 * i)],
         has_lights |-> pof_ver >= 2007,
         light_locations |-> [i \in 1..nl |-> V(a4 + 16 * i - 12)],
         light_types |-> [i \in 1..nl |-> I(a4 + 16 * i)]]

HeaderLen(h) ==
    52
    + (IF h.sobj_detail_levels # <<>> THEN 4 * h.num_detail_levels ELSE 0)
    + (IF h.sobj_debris # <<>> THEN 4 * h.num_debris ELSE 0)
    + (IF h.has_mass /\ h.mass # 0 THEN 52 ELSE 0)
    + (IF ~h.has_xsect THEN 4
       ELSE IF h.cross_section_depth # <<>> THEN 4 + Len(h.cross_section_depth) * 8
       ELSE 0)
    + (IF ~h.has_lights THEN 4
       ELSE IF h.light_locations # <<>> THEN 4 + Len(h.light_locations) * 16
       ELSE 0)

HeaderWrite(h) ==
    IF HeaderLen(h) = 0 THEN Raised("False")
    ELSE IF h.pof_ver >= 1903 /\ ~h.has_mass THEN Raised("AttributeError")
    ELSE IF h.pof_ver >= 2014 /\ ~h.has_xsect THEN Raised("AttributeError")
    ELSE IF h.pof_ver >= 2007 /\ ~h.has_lights THEN Raised("AttributeError")
    ELSE IF h.pof_ver >= 2014
            /\ Len(h.cross_section_radius) < Len(h.cross_section_depth)
      THEN Raised("IndexError")
    ELSE IF h.pof_ver >= 2007 /\ Len(h.light_types) < Len(h.light_locations)
      THEN Raised("IndexError")
    ELSE Written(
        TagBytes[h.CHUNK_ID] \o pack_int(HeaderLen(h))
        \o (IF h.pof_ver >= 2116
              THEN pack_float(h.max_radius) \o pack_int(h.obj_flags)
                   \o pack_int(h.num_subobjects)
              ELSE pack_int(h.num_subobjects) \o pack_float(h.max_radius)
                   \o pack_int(h.obj_flags))
        \o pack_floats(h.min_bounding) \o pack_floats(h.max_bounding)
        \o pack_int(h.num_detail_levels) \o pack_ints(h.sobj_detail_levels)
        \o pack_int(h.num_debris) \o pack_ints(h.sobj_debris)
        \o (IF h.pof_ver >= 1903
              THEN pack_float(h.mass) \o pack_floats(h.mass_center)
                   \o Concat([i \in 1..Len(h.inertia_tensor) |->
                                pack_floats(h.inertia_tensor[i])])
              ELSE <<>>)
        \o (IF h.pof_ver >= 2014
              THEN pack_int(Len(h.cross_section_depth))
                   \o Concat([i \in 1..Len(h.cross_section_depth) |->
                                pack_float(h.cross_section_depth[i])
                                \o pack_float(h.cross_section_radius[i])])
              ELSE <<>>)
        \o (IF h.pof_ver >= 2007
              THEN pack_int(Len(h.light_locations))
                   \o Concat([i \in 1..Len(h.light_locations) |->
                                pack_floats(h.light_locations[i])
                                \o pack_int(h.light_types[i])])
              ELSE <<>>))

(***************************************************************************)
(* TextureChunk (TXTR).                                                    *)
(***************************************************************************)
\* the n length-prefixed strings that start at cursor addr
RECURSIVE ReadStrings(_, _, _)
ReadStrings(d, addr, n) ==
    IF n <= 0 THEN <<>>
    ELSE LET str_len == unpack_int(RawRead(d, addr, 4))
         IN  << RawRead(d, addr + 4, str_len) >>
             \o ReadStrings(d, addr + 4 + str_len, n - 1)

TextureRead(d, pof_ver) ==
    [cls |-> "TextureChunk", CHUNK_ID |-> "TXTR", pof_ver |-> pof_ver,
     textures |-> ReadStrings(d, 4, unpack_int(RawRead(d, 0, 4)))]

TextureLen(c) ==
    4 + SumSeq([i \in 1..Len(c.textures) |-> 4 + Len(c.textures[i])])

TextureWrite(c) ==
    IF TextureLen(c) = 0 THEN Raised("False")
    ELSE Written(
        TagBytes[c.CHUNK_ID] \o pack_int(TextureLen(c))
        \o pack_int(Len(c.textures))
        \o Concat([i \in 1..Len(c.textures) |-> pack_string(c.textures[i])]))

(***************************************************************************)
(* MiscChunk (PINF).  lines is a list of str; write_chunk calls bytes() on *)
(* a str without an encoding, which raises TypeError.                      *)
(***************************************************************************)
\* data.split(NUL): the pieces between the zero bytes
RECURSIVE SplitNul(_, _)
SplitNul(d, cur) ==
    IF d = <<>> THEN << cur >>
    ELSE IF Head(d) = 0 THEN << cur >> \o SplitNul(Tail(d), <<>>)
    ELSE SplitNul(Tail(d), Append(cur, Head(d)))

MiscRead(d, pof_ver) ==
    [cls |-> "MiscChunk", CHUNK_ID |-> "PINF", pof_ver |-> pof_ver,
     lines |-> SplitNul(RawRead(d, 0, 0), <<>>)]

MiscLen(c) == Len(c.lines) + SumSeq([i \in 1..Len(c.lines) |-> Len(c.lines[i])])

MiscWrite(c) ==
    IF MiscLen(c) = 0 THEN Raised("False") ELSE Raised("TypeError")

(***************************************************************************)
(* CenterChunk (ACEN).  __len__ returns None when co is empty, and len()   *)
(* then raises TypeError.                                                  *)
(***************************************************************************)
CenterRead(d, pof_ver) ==
    [cls |-> "CenterChunk", CHUNK_ID |-> "ACEN", pof_ver |-> pof_ver,
     co |-> unpack_vector(RawRead(d, 0, 12))]

CenterLen(c) == IF c.co # <<>> THEN 12 ELSE -1

CenterWrite(c) ==
    IF CenterLen(c) < 0 THEN Raised("TypeError")
    ELSE Written(TagBytes[c.CHUNK_ID] \o pack_int(CenterLen(c)) \o pack_floats(c.co))

(***************************************************************************)
(* EyeChunk (" EYE" or "EYE ").                                            *)
(***************************************************************************)
EyeRead(d, tag, pof_ver) ==
    LET num_eyes == unpack_int(RawRead(d, 0, 4))
    IN  [cls |-> "EyeChunk", CHUNK_ID |-> tag, pof_ver |-> pof_ver,
         sobj_num |-> [i \in 1..Count(num_eyes) |->
                          unpack_int(RawRead(d, 4 + 28 * (i - 1), 4))],
         eye_offset |-> [i \in 1..Count(num_eyes) |->
                          unpack_vector(RawRead(d, 8 + 28 * (i - 1), 12))],
         eye_normal |-> [i \in 1..Count(num_eyes) |->
                          unpack_vector(RawRead(d, 20 + 28 * (i - 1), 12))]]

EyeLen(c) == 4 + 28 * Len(c.eye_normal)

EyeWrite(c) ==
    Written(
        TagBytes[c.CHUNK_ID] \o pack_int(EyeLen(c)) \o pack_int(Len(c.eye_normal))
        \o Concat([i \in 1..Len(c.eye_normal) |->
              pack_int(c.sobj_num[i]) \o pack_floats(c.eye_offset[i])
              \o pack_floats(c.eye_normal[i])]))

(***************************************************************************)
(* FuelChunk (FUEL).  read_chunk leaves thruster_properties None below     *)
(* version 2117 (has_props FALSE).                                         *)
(***************************************************************************)
\* the num_glows glow points that start at cursor addr
GlowsAt(d, addr, num_glows) ==
    [j \in 1..num_glows |->
        [pos |-> unpack_vector(RawRead(d, addr + 28 * (j - 1), 12)),
         norm |-> unpack_vector(RawRead(d, addr + 28 * (j - 1) + 12, 12)),
         radius |-> unpack_float(RawRead(d, addr + 28 * (j - 1) + 24, 4))]]

\* the n thruster banks that start at cursor addr
RECURSIVE ReadThrusters(_, _, _, _)
ReadThrusters(d, addr, n, pof_ver) ==
    IF n <= 0 THEN <<>>
    ELSE LET num_glows == unpack_int(RawRead(d, addr, 4))
             str_len == IF pof_ver >= 2117 THEN unpack_int(RawRead(d, addr + 4, 4)) ELSE 0
             prop == IF pof_ver >= 2117 THEN RawRead(d, addr + 8, str_len) ELSE <<>>
             a1 == IF pof_ver >= 2117 THEN addr + 8 + str_len ELSE addr + 4
         IN  << [prop |-> prop, glows |-> GlowsAt(d, a1, num_glows)] >>
             \o ReadThrusters(d, a1 + 28 * Count(num_glows), n - 1, pof_ver)

FuelRead(d, pof_ver) ==
    LET banks == ReadThrusters(d, 4, unpack_int(RawRead(d, 0, 4)), pof_ver)
    IN  [cls |-> "FuelChunk", CHUNK_ID |-> "FUEL", pof_ver |-> pof_ver,
         has_props |-> pof_ver >= 2117,
         thruster_properties |->
             IF pof_ver >= 2117 THEN [i \in 1..Len(banks) |-> banks[i].prop] ELSE <<>>,
         glow_pos |-> [i \in 1..Len(banks) |->
                         [j \in 1..Len(banks[i].glows) |-> banks[i].glows[j].pos]],
         glow_norm |-> [i \in 1..Len(banks) |->
                         [j \in 1..Len(banks[i].glows) |-> banks[i].glows[j].norm]],
         glow_radius |-> [i \in 1..Len(banks) |->
                         [j \in 1..Len(banks[i].glows) |-> banks[i].glows[j].radius]]]

\* -1 stands for the TypeError of indexing thruster_properties = None
FuelLen(c) ==
    IF c.pof_ver >= 2117 /\ ~c.has_props /\ Len(c.glow_pos) > 0 THEN -1
    ELSE 4 + SumSeq([i \in 1..Len(c.glow_pos) |->
                       (IF c.pof_ver >= 2117 THEN 8 + Len(c.thruster_properties[i]) ELSE 0)
                       + 28 * Len(c.glow_pos[i])])

FuelWrite(c) ==
    IF FuelLen(c) < 0 THEN Raised("TypeError")
    ELSE IF FuelLen(c) = 0 THEN Raised("False")
    ELSE Written(
        TagBytes[c.CHUNK_ID] \o pack_int(FuelLen(c))
        \o pack_int(Len(c.glow_pos))
        \o Concat([i \in 1..Len(c.glow_pos) |->
              pack_int(Len(c.glow_pos[i]))
              \o (IF c.pof_ver >= 2117 THEN pack_string(c.thruster_properties[i]) ELSE <<>>)
              \o Concat([j \in 1..Len(c.glow_pos[i]) |->
                    pack_floats(c.glow_pos[i][j]) \o pack_floats(c.glow_norm[i][j])
                    \o pack_float(c.glow_radius[i][j])])]))

(***************************************************************************)
(* TreeChunk (SLDC) with its ShieldSplit and ShieldLeaf nodes.  read_chunk *)
(* stores the offsets of a split node as front and back; the written       *)
(* object keeps them as front_offset and back_offset.  has_tree tells      *)
(* whether the attribute shield_tree is set.                               *)
(***************************************************************************)
ShieldNodeLen(node) ==
    IF node.node_type = 0 THEN 37 ELSE 33 + 4 * Len(node.face_list)

\* the nodes that start at cursor addr, up to the end of the data
RECURSIVE ReadShieldNodes(_, _)
ReadShieldNodes(d, addr) ==
    LET node_type == unpack_ubyte(RawRead(d, addr, 1))
        eof_test == RawRead(d, addr + 1, 4)
        U(a) == unpack_uint(RawRead(d, a, 4))
        V(a) == unpack_vector(RawRead(d, a, 12))
        num_polygons == U(addr + 29)
    IN  IF eof_test = <<>> THEN <<>>
        ELSE IF node_type = 0
          THEN << [node_type |-> 0, min |-> V(addr + 5), max |-> V(addr + 17),
                   front |-> U(addr + 29), back |-> U(addr + 33)] >>
               \o ReadShieldNodes(d, addr + 37)
        ELSE << [node_type |-> 1, min |-> V(addr + 5), max |-> V(addr + 17),
                 face_list |-> [i \in 1..num_polygons |-> U(addr + 29 + 4 * i)]] >>
             \o ReadShieldNodes(d, addr + 33 + 4 * Count(num_polygons))

TreeRead(d, pof_ver) ==
    LET nodes == ReadShieldNodes(d, 4)
    IN  [cls |-> "TreeChunk", CHUNK_ID |-> "SLDC", pof_ver |-> pof_ver,
         has_tree |-> nodes # <<>>,
         shield_tree |-> nodes]

TreeLen(c) ==
    IF ~c.has_tree THEN 0
    ELSE 4 + SumSeq([i \in 1..Len(c.shield_tree) |-> ShieldNodeLen(c.shield_tree[i])])

TreeWrite(c) ==
    IF TreeLen(c) = 0 THEN Raised("False")
    ELSE Written(
        TagBytes[c.CHUNK_ID] \o pack_int(TreeLen(c)) \o pack_uint(TreeLen(c) - 4)
        \o Concat([i \in 1..Len(c.shield_tree) |->
              LET node == c.shield_tree[i]
              IN  pack_ubyte(node.node_type) \o pack_uint(ShieldNodeLen(node))
                  \o (IF node.node_type # 0
                        THEN pack_floats(node.min) \o pack_floats(node.max)
                             \o pack_uint(Len(node.face_list))
                             \o pack_ints(node.face_list)
                        ELSE <<>>)]))

(***************************************************************************)
(* read_chunk of the BSP blocks.  d is the data of one block, without its  *)
(* 8-byte id and size.                                                     *)
(***************************************************************************)
\* the vertices and their normals that start at cursor addr
RECURSIVE ReadVerts(_, _, _)
ReadVerts(d, addr, norm_counts) ==
    IF norm_counts = <<>> THEN <<>>
    ELSE LET n == Head(norm_counts)
         IN  << [vert |-> unpack_vector(RawRead(d, addr, 12)),
                 norms |-> [j \in 1..n |-> unpack_vector(RawRead(d, addr + 12 * j, 12))]] >>
             \o ReadVerts(d, addr + 12 + 12 * Count(n), Tail(norm_counts))

DefpointsRead(d) ==
    LET num_verts == unpack_int(RawRead(d, 0, 4))
        vert_data_offset == unpack_int(RawRead(d, 8, 4))
        norm_counts == [i \in 1..num_verts |-> unpack_byte(RawRead(d, 11 + i, 1))]
        tell == 12 + Count(num_verts)
        start == IF tell # vert_data_offset - 8 THEN vert_data_offset - 8 ELSE tell
        verts == ReadVerts(d, start, norm_counts)
    IN  [CHUNK_ID |-> 1,
         norm_counts |-> norm_counts,
         vert_list |-> [i \in 1..Len(verts) |-> verts[i].vert],
         vert_norms |-> [i \in 1..Len(verts) |-> verts[i].norms]]

TexpolyRead(d) ==
    LET num_verts == unpack_int(RawRead(d, 28, 4))
    IN  [CHUNK_ID |-> 3,
         normal |-> unpack_vector(RawRead(d, 0, 12)),
         center |-> unpack_vector(RawRead(d, 12, 12)),
         radius |-> unpack_float(RawRead(d, 24, 4)),
         texture_id |-> unpack_int(RawRead(d, 32, 4)),
         vert_list |-> [i \in 1..num_verts |-> unpack_ushort(RawRead(d, 24 + 12 * i, 2))],
         norm_list |-> [i \in 1..num_verts |-> unpack_ushort(RawRead(d, 26 + 12 * i, 2))],
         u |-> [i \in 1..num_verts |-> unpack_float(RawRead(d, 28 + 12 * i, 4))],
         v |-> [i \in 1..num_verts |-> unpack_float(RawRead(d, 32 + 12 * i, 4))]]

SortnormRead(d) ==
    [CHUNK_ID |-> 4,
     plane_normal |-> unpack_vector(RawRead(d, 0, 12)),
     plane_point |-> unpack_vector(RawRead(d, 12, 12)),
     front_offset |-> unpack_int(RawRead(d, 28, 4)),
     back_offset |-> unpack_int(RawRead(d, 32, 4)),
     prelist_offset |-> unpack_int(RawRead(d, 36, 4)),
     postlist_offset |-> unpack_int(RawRead(d, 40, 4)),
     online_offset |-> unpack_int(RawRead(d, 44, 4)),
     min |-> unpack_vector(RawRead(d, 48, 12)),
     max |-> unpack_vector(RawRead(d, 60, 12))]

BoundboxRead(d) ==
    [CHUNK_ID |-> 5,
     min |-> unpack_vector(RawRead(d, 0, 12)),
     max |-> unpack_vector(RawRead(d, 12, 12))]

\* chunk_dict[block_id]().read_chunk(RawData(d))
BlockRead(block_id, d) ==
    CASE block_id = 0 -> EndBlock
      [] block_id = 1 -> DefpointsRead(d)
      [] block_id = 3 -> TexpolyRead(d)
      [] block_id = 4 -> SortnormRead(d)
      [] block_id = 5 -> BoundboxRead(d)

(***************************************************************************)
(* ModelChunk (OBJ2 / SOBJ).                                               *)
(***************************************************************************)
ModelInit(pof_ver) == IF pof_ver >= 2116 THEN "OBJ2" ELSE "SOBJ"

\* the blocks that start at cursor addr, up to the end of the chunk data
RECURSIVE ReadBlocks(_, _)
ReadBlocks(d, addr) ==
    LET eof_test == RawRead(d, addr, 4)
        block_id == unpack_int(RawRead(d, addr, 4))
        block_size == unpack_int(RawRead(d, addr + 4, 4))
    IN  IF eof_test = <<>> THEN <<>>
        ELSE IF block_id = 0 THEN << EndBlock >> \o ReadBlocks(d, addr + 8)
        ELSE << BlockRead(block_id, RawRead(d, addr + 8, block_size - 8)) >>
             \o ReadBlocks(d, addr + block_size)

ModelRead(d, pof_ver) ==
    LET I(a) == unpack_int(RawRead(d, a, 4))
        F(a) == unpack_float(RawRead(d, a, 4))
        V(a) == unpack_vector(RawRead(d, a, 12))
        name_len == I(60)
        a1 == 64 + name_len
        prop_len == I(a1)
        a2 == a1 + 4 + prop_len
    IN  [cls |-> "ModelChunk",
         CHUNK_ID |-> ModelInit(pof_ver),
         pof_ver |-> pof_ver,
         model_id |-> I(0),
         radius |-> IF pof_ver >= 2116 THEN F(4) ELSE F(20),
         parent_id |-> IF pof_ver >= 2116 THEN I(8) ELSE I(4),
         offset |-> IF pof_ver >= 2116 THEN V(12) ELSE V(8),
         center |-> V(24),
         min |-> V(36),
         max |-> V(48),
         name |-> RawRead(d, 64, name_len),
         properties |-> RawRead(d, a1 + 4, prop_len),
         movement_type |-> I(a2),
         movement_axis |-> I(a2 + 4),
         bsp_tree |-> ReadBlocks(d, a2 + 16)]

ModelLen(c) ==
    84 + Len(c.name) + Len(c.properties)
    + SumSeq([i \in 1..Len(c.bsp_tree) |-> BlockLen(c.bsp_tree[i])])

ModelWrite(c) ==
    LET bsp_data == Concat([i \in 1..Len(c.bsp_tree) |-> BlockWrite(c.bsp_tree[i])])
    IN  IF ModelLen(c) = 0 THEN Raised("False")
        ELSE Written(
            TagBytes[c.CHUNK_ID] \o pack_int(ModelLen(c))
            \o pack_int(c.model_id)
            \o (IF c.pof_ver >= 2116
                  THEN pack_float(c.radius) \o pack_int(c.parent_id) \o pack_floats(c.offset)
                  ELSE pack_int(c.parent_id) \o pack_floats(c.offset) \o pack_float(c.radius))
            \o pack_floats(c.center) \o pack_floats(c.min) \o pack_floats(c.max)
            \o pack_string(c.name) \o pack_string(c.properties)
            \o pack_int(c.movement_type) \o pack_int(c.movement_axis)
            \o << 0, 0, 0, 0 >>
            \o pack_int(Len(bsp_data)) \o bsp_data)

(***************************************************************************)
(* The chunk classes together.                                             *)
(***************************************************************************)
\* chunk_dict[tag](pof_ver, tag).read_chunk(RawData(d))
ChunkRead(tag, d, pof_ver) ==
    CASE chunk_dict[tag] = "HeaderChunk" -> HeaderRead(d, pof_ver)
      [] chunk_dict[tag] = "TextureChunk" -> TextureRead(d, pof_ver)
      [] chunk_dict[tag] = "MiscChunk" -> MiscRead(d, pof_ver)
      [] chunk_dict[tag] = "FuelChunk" -> FuelRead(d, pof_ver)
      [] chunk_dict[tag] = "CenterChunk" -> CenterRead(d, pof_ver)
      [] chunk_dict[tag] = "EyeChunk" -> EyeRead(d, tag, pof_ver)
      [] chunk_dict[tag] = "TreeChunk" -> TreeRead(d, pof_ver)
      [] chunk_dict[tag] = "ModelChunk" -> ModelRead(d, pof_ver)

\* len(chunk)
ChunkLen(c) ==
    CASE c.cls = "HeaderChunk" -> HeaderLen(c)
      [] c.cls = "TextureChunk" -> TextureLen(c)
      [] c.cls = "MiscChunk" -> MiscLen(c)
      [] c.cls = "FuelChunk" -> FuelLen(c)
      [] c.cls = "CenterChunk" -> CenterLen(c)
      [] c.cls = "EyeChunk" -> EyeLen(c)
      [] c.cls = "TreeChunk" -> TreeLen(c)
      [] c.cls = "ModelChunk" -> ModelLen(c)

\* chunk.write_chunk()
ChunkWrite(c) ==
    CASE c.cls = "HeaderChunk" -> HeaderWrite(c)
      [] c.cls = "TextureChunk" -> TextureWrite(c)
      [] c.cls = "MiscChunk" -> MiscWrite(c)
      [] c.cls = "FuelChunk" -> FuelWrite(c)
      [] c.cls = "CenterChunk" -> CenterWrite(c)
      [] c.cls = "EyeChunk" -> EyeWrite(c)
      [] c.cls = "TreeChunk" -> TreeWrite(c)
      [] c.cls = "ModelChunk" -> ModelWrite(c)

(***************************************************************************)
(* The submodel BSP builder: ModelChunk._generate_tree_recursion and its   *)
(* helpers.  self._defpoints.vert_list is VertTable.                       *)
(***************************************************************************)
VertTable ==
    << <<0, 0, 0>>, <<40, 0, 0>>, <<0, 40, 0>>,
       <<400, 0, 0>>, <<440, 0, 0>>, <<400, 40, 0>> >>

\* The faces a caller may hand over: TexpolyBlock objects as set_mesh builds
\* them (lines 1567-1578); only center and vert_list differ between them.
Shape(c, vl) == [center |-> c, vert_list |-> vl]

Palette ==
    << Shape(<<13, 13, 0>>, <<0, 1, 2>>),
       Shape(<<425, 13, 0>>, <<3, 4, 5>>),
       Shape(<<426, 13, 0>>, <<3, 4, 5>>) >>

\* A face object: a palette shape with its identity (its place in the input).
FaceObj(i, k) ==
    [id |-> i, CHUNK_ID |-> 3, center |-> Palette[k].center,
     vert_list |-> Palette[k].vert_list]

\* the remaining attributes of a face object, the same for every face
TexpolyOf(f) ==
    [CHUNK_ID |-> 3, normal |-> <<0, 0, 400>>, center |-> f.center, radius |-> 30,
     texture_id |-> 0, vert_list |-> f.vert_list, norm_list |-> <<0, 0, 0>>,
     u |-> <<0, 400, 0>>, v |-> <<0, 0, 400>>]

FaceIds(fl) == {fl[i].id : i \in 1..Len(fl)}

\* ModelChunk._get_bounds: returns (max_pnt, min_pnt)
GetBounds(face_list) ==
    LET coord(a) == {VertTable[face_list[i].vert_list[j] + 1][a] :
                       i \in 1..Len(face_list), j \in 1..3}
    IN  [max_pnt |-> << SetMax(coord(1)) + BoundsMargin, SetMax(coord(2)) + BoundsMargin,
                        SetMax(coord(3)) + BoundsMargin >>,
         min_pnt |-> << SetMin(coord(1)) - BoundsMargin, SetMin(coord(2)) - BoundsMargin,
                        SetMin(coord(3)) - BoundsMargin >>]

\* ModelChunk._get_split_plane: returns (ctr_pnt, max_axis, node_norm)
GetSplitPlane(max_pnt, min_pnt) ==
    LET dx == max_pnt[1] - min_pnt[1]
        dy == max_pnt[2] - min_pnt[2]
        dz == max_pnt[3] - min_pnt[3]
        ax == IF dx >= dy /\ dx >= dz THEN 1 ELSE IF dy >= dz THEN 2 ELSE 3
    IN  [ctr_pnt |-> << min_pnt[1] + dx \div 2, min_pnt[2] + dy \div 2, min_pnt[3] + dz \div 2 >>,
         max_axis |-> ax,
         node_norm |-> [a \in 1..3 |-> IF a = ax THEN 1 ELSE 0]]

MakeSplitDropTies(ctr_pnt, max_axis, face_list) ==
    LET inFront(f) == f.center[max_axis] > ctr_pnt[max_axis]
        inBack(f) == f.center[max_axis] < ctr_pnt[max_axis]
    IN  [front_list |-> SelectSeq(face_list, inFront),
         back_list |-> SelectSeq(face_list, inBack)]

\* ModelChunk._make_split: returns (front_list, back_list)
MakeSplit(ctr_pnt, max_axis, face_list) ==
    LET inFront(f) == f.center[max_axis] >= ctr_pnt[max_axis]
        inBack(f) == ~(f.center[max_axis] >= ctr_pnt[max_axis])
    IN  [front_list |-> SelectSeq(face_list, inFront),
         back_list |-> SelectSeq(face_list, inBack)]

AddFacesBare(tree, face_list) == tree \o face_list \o << EndBlock >>

\* ModelChunk._add_faces: the bsp_tree after the call
AddFaces(tree, face_list) ==
    LET b == GetBounds(face_list)
    IN  tree \o << [CHUNK_ID |-> 5, min |-> b.min_pnt, max |-> b.max_pnt] >>
             \o face_list \o << EndBlock >>

BackOffsetFromMarkers(tree, cur_idx) ==
    SumSeq([i \in 1..(Len(tree) - cur_idx - 3) |-> BlockLen(tree[cur_idx + 3 + i])])

\* lines 1763-1766: the sum of len(node) over bsp_tree[cur_idx:]
\* (cur_idx is the 1-based place of the SortNorm node)
BackOffset(tree, cur_idx) ==
    SumSeq([i \in 1..(Len(tree) - cur_idx + 1) |-> BlockLen(tree[cur_idx + i - 1])])

NoPnt == <<>>

Frame(fl) ==
    [pc |-> "start", face_list |-> fl, front_list |-> <<>>, back_list |-> <<>>,
     ctr_pnt |-> NoPnt, max_axis |-> 0, node_norm |-> NoPnt,
     max_pnt |-> NoPnt, min_pnt |-> NoPnt,
     fnum |-> 0, bnum |-> 0, num_tries |-> 0, real_tries |-> 0, ratio |-> 0,
     cur_idx |-> 0,
     via |-> "none"]     \* history: the stretch of code that made the last split

Top == stack[Len(stack)]
Pop == SubSeq(stack, 1, Len(stack) - 1)
SetTop(f) == [stack EXCEPT ![Len(stack)] = f]

\* a frame returns: control goes back to the caller, or the build is over
Return(tree) ==
    /\ bsp_tree' = tree
    /\ stack' = Pop
    /\ bstatus' = IF Len(stack) = 1 THEN "done" ELSE bstatus
    /\ UNCHANGED <<bInput, backStart>>

\* a recursive call on fl: a new frame, or Python's recursion limit
Call(caller, fl) ==
    IF Len(stack) >= MaxDepth
    THEN /\ stack' = SetTop(caller)
         /\ bstatus' = "RecursionError"
    ELSE /\ stack' = SetTop(caller) \o << Frame(fl) >>
         /\ bstatus' = bstatus
(***************************************************************************)
(* _generate_tree_recursion, one action per stretch of its code.           *)
(***************************************************************************)
\* lines 1652-1692: the 0-, 1- and 2-face cases and the initial split
BspStart ==
    /\ bstatus = "running" /\ stack # <<>> /\ Top.pc = "start"
    /\ LET f == Top
           fl == f.face_list
       IN  IF Len(fl) = 0
           THEN Return(bsp_tree)
           ELSE IF Len(fl) = 1
           THEN Return(AddFaces(bsp_tree, fl))
           ELSE IF Len(fl) = 2
           THEN IF fl[1].center = fl[2].center
                THEN Return(AddFaces(bsp_tree, fl))
                ELSE LET mx == [a \in 1..3 |-> SetMax({fl[1].center[a], fl[2].center[a]})]
                         mn == [a \in 1..3 |-> SetMin({fl[1].center[a], fl[2].center[a]})]
                         sp == GetSplitPlane(mx, mn)
                         pt == MakeSplit(sp.ctr_pnt, sp.max_axis, fl)
                     IN  /\ stack' = SetTop([f EXCEPT !.pc = "emit", !.via = "pair",
                                   !.ctr_pnt = sp.ctr_pnt, !.max_axis = sp.max_axis,
                                   !.node_norm = sp.node_norm,
                                   !.front_list = pt.front_list, !.back_list = pt.back_list,
                                   !.max_pnt = NoPnt, !.min_pnt = NoPnt])
                         /\ UNCHANGED <<bInput, bsp_tree, bstatus, backStart>>
           ELSE LET b == GetBounds(fl)
                    sp == GetSplitPlane(b.max_pnt, b.min_pnt)
                    pt == MakeSplit(sp.ctr_pnt, sp.max_axis, fl)
                IN  /\ stack' = SetTop([f EXCEPT !.pc = "recover", !.via = "initial",
                              !.max_pnt = b.max_pnt, !.min_pnt = b.min_pnt,
                              !.ctr_pnt = sp.ctr_pnt, !.max_axis = sp.max_axis,
                              !.node_norm = sp.node_norm,
                              !.front_list = pt.front_list, !.back_list = pt.back_list,
                              !.fnum = Len(pt.front_list), !.bnum = Len(pt.back_list),
                              !.num_tries = 0, !.real_tries = 0, !.ratio = 2 * NudgeStep])
                    /\ UNCHANGED <<bInput, bsp_tree, bstatus, backStart>>
    /\ UNCHANGED << svars, cvars, fvars >>

PanicLimit(real_tries) == real_tries > MaxRealTries

PanicNever(real_tries) == FALSE

\* line 1698
Panic(real_tries) == PanicLimit(real_tries)

\* lines 1693-1722: one pass of the degenerate-split recovery loop
BspRecover ==
    /\ bstatus = "running" /\ stack # <<>> /\ Top.pc = "recover"
    /\ Top.fnum = 0 \/ Top.bnum = 0
    /\ LET f == Top
           rt == f.real_tries + 1
       IN  IF Panic(rt)
           THEN Return(AddFaces(bsp_tree, f.face_list))
           ELSE LET onBack == f.bnum # 0
                    nt == IF onBack THEN 1 ELSE f.num_tries + 1
                    ra == IF onBack THEN f.ratio \div 2 ELSE f.ratio
                    src == IF onBack THEN f.back_list ELSE f.front_list
                    b == GetBounds(src)
                    sp == GetSplitPlane(b.max_pnt, b.min_pnt)
                    ctr == [sp.ctr_pnt EXCEPT ![sp.max_axis] =
                               IF onBack THEN @ - ra * nt ELSE @ + ra * nt]
                    pt == MakeSplit(ctr, sp.max_axis, src)
                IN  /\ stack' = SetTop([f EXCEPT !.via = "recover",
                              !.num_tries = nt, !.real_tries = rt, !.ratio = ra,
                              !.ctr_pnt = ctr, !.max_axis = sp.max_axis,
                              !.node_norm = sp.node_norm,
                              !.front_list = pt.front_list, !.back_list = pt.back_list,
                              !.fnum = Len(pt.front_list), !.bnum = Len(pt.back_list)])
                    /\ UNCHANGED <<bInput, bsp_tree, bstatus, backStart>>
    /\ UNCHANGED << svars, cvars, fvars >>

\* line 1723: the recovery loop is left with both sides non-empty
BspRecoverExit ==
    /\ bstatus = "running" /\ stack # <<>> /\ Top.pc = "recover"
    /\ Top.fnum # 0 /\ Top.bnum # 0
    /\ stack' = SetTop([Top EXCEPT !.pc = "balance", !.num_tries = 0])
    /\ UNCHANGED <<bInput, bsp_tree, bstatus, backStart>>
    /\ UNCHANGED << svars, cvars, fvars >>

\* lines 1724-1728: the condition of the balance-refinement loop
Unbalanced(f) ==
    /\ f.num_tries <= MaxBalanceTries
    /\ \/ f.fnum + f.bnum # Len(f.face_list)
       \/ 20 * (f.fnum - f.bnum) > (f.fnum + f.bnum) + 20
       \/ f.fnum = 0 \/ f.bnum = 0

\* lines 1729-1739: one pass of the balance-refinement loop
BspBalance ==
    /\ bstatus = "running" /\ stack # <<>> /\ Top.pc = "balance"
    /\ Unbalanced(Top)
    /\ LET f == Top
           nt == f.num_tries + 1
           delta == f.max_pnt[f.max_axis] - f.min_pnt[f.max_axis]
           step == delta \div ((nt + 1) * (nt + 1))
           ctr == [f.ctr_pnt EXCEPT ![f.max_axis] =
                      IF f.fnum > f.bnum THEN @ + step ELSE @ - step]
           pt == MakeSplit(ctr, f.max_axis, f.face_list)
       IN  /\ stack' = SetTop([f EXCEPT !.via = "balance",
                     !.num_tries = nt, !.ctr_pnt = ctr,
                     !.front_list = pt.front_list, !.back_list = pt.back_list,
                     !.fnum = Len(pt.front_list), !.bnum = Len(pt.back_list)])
           /\ UNCHANGED <<bInput, bsp_tree, bstatus, backStart>>
    /\ UNCHANGED << svars, cvars, fvars >>

\* lines 1741-1744: after the balance loop, an empty side falls back to a leaf run
BspBalanceExit ==
    /\ bstatus = "running" /\ stack # <<>> /\ Top.pc = "balance"
    /\ ~Unbalanced(Top)
    /\ IF Top.fnum = 0 \/ Top.bnum = 0
       THEN Return(AddFaces(bsp_tree, Top.face_list))
       ELSE /\ stack' = SetTop([Top EXCEPT !.pc = "emit"])
            /\ UNCHANGED <<bInput, bsp_tree, bstatus, backStart>>
    /\ UNCHANGED << svars, cvars, fvars >>

\* lines 1745-1761: the SortNorm node, its 3 markers, and the call on front_list
BspEmit ==
    /\ bstatus = "running" /\ stack # <<>> /\ Top.pc = "emit"
    /\ LET f == Top
           b == IF f.max_pnt = NoPnt \/ f.min_pnt = NoPnt
                THEN GetBounds(f.face_list)
                ELSE [max_pnt |-> f.max_pnt, min_pnt |-> f.min_pnt]
           node == [CHUNK_ID |-> 4, front_offset |-> 104, prelist_offset |-> 80,
                    postlist_offset |-> 88, online_offset |-> 96,
                    max |-> b.max_pnt, min |-> b.min_pnt,
                    plane_normal |-> f.node_norm, plane_point |-> f.ctr_pnt,
                    back_set |-> FALSE, back_offset |-> 0]
       IN  /\ bsp_tree' = bsp_tree \o << node, EndBlock, EndBlock, EndBlock >>
           /\ Call([f EXCEPT !.pc = "front", !.cur_idx = Len(bsp_tree) + 1,
                             !.max_pnt = b.max_pnt, !.min_pnt = b.min_pnt],
                   f.front_list)
           /\ UNCHANGED <<bInput, backStart>>
    /\ UNCHANGED << svars, cvars, fvars >>

\* lines 1762-1769: back_offset, then the call on back_list
BspBackOffset ==
    /\ bstatus = "running" /\ stack # <<>> /\ Top.pc = "front"
    /\ LET f == Top
       IN  /\ bsp_tree' = [bsp_tree EXCEPT ![f.cur_idx] =
                   [@ EXCEPT !.back_set = TRUE,
                             !.back_offset = BackOffset(bsp_tree, f.cur_idx)]]
           /\ backStart' = [i \in DOMAIN backStart \cup {f.cur_idx} |->
                               IF i = f.cur_idx THEN Len(bsp_tree) + 1 ELSE backStart[i]]
           /\ Call([f EXCEPT !.pc = "back"], f.back_list)
           /\ UNCHANGED bInput
    /\ UNCHANGED << svars, cvars, fvars >>

\* the call on back_list has returned: the frame returns
BspReturn ==
    /\ bstatus = "running" /\ stack # <<>> /\ Top.pc = "back"
    /\ Return(bsp_tree)
    /\ UNCHANGED << svars, cvars, fvars >>

BspInputs ==
    UNION {[1..n -> 1..Len(Palette)] : n \in 0..MaxFaces}

BspInit ==
    /\ \E ks \in BspInputs :
         /\ bInput = [i \in 1..Len(ks) |-> FaceObj(i, ks[i])]
         /\ stack = << Frame(bInput) >>
    /\ bsp_tree = <<>>
    /\ bstatus = "running"
    /\ backStart = << >>
    /\ shield_tree = <<>> /\ leaf_faces = <<>>
    /\ CodecIdle
    /\ FileIdle

BspNext ==
    \/ BspStart
    \/ BspRecover
    \/ BspRecoverExit
    \/ BspBalance
    \/ BspBalanceExit
    \/ BspEmit
    \/ BspBackOffset
    \/ BspReturn

SpecBsp == BspInit /\ [][BspNext]_vars

(***************************************************************************)
(* The shield collision tree builder: TreeChunk.make_shield_collision_tree *)
(* and TreeChunk._generate_tree_recursion, one action per stretch of code. *)
(* It shares stack and bstatus with the submodel builder, which is idle.   *)
(***************************************************************************)
\* a Face of the mesh: its index in the mesh's face list, its center and its
\* three Vertex objects
ShieldFace(i, k) ==
    [face_idx |-> i - 1, center |-> Palette[k].center,
     vert_list |-> [j \in 1..3 |-> [co |-> VertTable[Palette[k].vert_list[j] + 1]]]]

\* TreeChunk._get_bounds: returns (max_pnt, min_pnt)
ShieldGetBounds(face_list) ==
    LET coord(a) == {face_list[i].vert_list[j].co[a] :
                       i \in 1..Len(face_list), j \in 1..3}
    IN  [max_pnt |-> << SetMax(coord(1)) + BoundsMargin, SetMax(coord(2)) + BoundsMargin,
                        SetMax(coord(3)) + BoundsMargin >>,
         min_pnt |-> << SetMin(coord(1)) - BoundsMargin, SetMin(coord(2)) - BoundsMargin,
                        SetMin(coord(3)) - BoundsMargin >>]

\* TreeChunk._add_faces, lines 2095-2098 and 2101: the shield_tree after the
\* call.  The new ShieldLeaf has no face_list of its own; passed is history,
\* the face indices of the call that made the leaf.
ShieldAddFaces(tree, face_list) ==
    LET b == ShieldGetBounds(face_list)
    IN  tree \o << [node_type |-> 1, min |-> b.min_pnt, max |-> b.max_pnt,
                    passed |-> [i \in 1..Len(face_list) |-> face_list[i].face_idx]] >>

\* TreeChunk._add_faces, lines 2099-2100: cur_node.face_list is the list of
\* the class ShieldLeaf, and the indices are appended to it
FaceListAfter(face_list) ==
    leaf_faces \o [i \in 1..Len(face_list) |-> face_list[i].face_idx]

\* node.face_list of a leaf of shield_tree: the list of the class
LeafFaceList(node) == leaf_faces

\* ShieldSplit.__len__ and ShieldLeaf.__len__
BuiltNodeLen(node) ==
    IF node.node_type = 0 THEN 37 ELSE 33 + 4 * Len(LeafFaceList(node))

\* lines 2257-2259: the sum of len(node) over shield_tree[cur_idx:]
ShieldBackOffset(tree, cur_idx) ==
    SumSeq([i \in 1..(Len(tree) - cur_idx + 1) |-> BuiltNodeLen(tree[cur_idx + i - 1])])

\* a frame returns: control goes back to the caller, or the build is over
ShieldReturn(tree, faces) ==
    /\ shield_tree' = tree
    /\ leaf_faces' = faces
    /\ stack' = Pop
    /\ bstatus' = IF Len(stack) = 1 THEN "done" ELSE bstatus
    /\ UNCHANGED <<bInput, bsp_tree, backStart>>

\* make_shield_collision_tree(m=m), lines 2078-2092
ShieldMake ==
    /\ bstatus = "mesh"
    /\ shield_tree' = <<>>
    /\ stack' = << Frame(bInput) >>
    /\ bstatus' = "running"
    /\ UNCHANGED <<bInput, bsp_tree, backStart, leaf_faces, cvars, fvars>>

\* lines 2152-2192: the 0-, 1- and 2-face cases and the initial split
ShieldStart ==
    /\ bstatus = "running" /\ stack # <<>> /\ Top.pc = "start"
    /\ LET f == Top
           fl == f.face_list
       IN  IF Len(fl) = 0
           THEN ShieldReturn(shield_tree, leaf_faces)
           ELSE IF Len(fl) = 1
           THEN ShieldReturn(ShieldAddFaces(shield_tree, fl), FaceListAfter(fl))
           ELSE IF Len(fl) = 2
           THEN IF fl[1].center = fl[2].center
                THEN ShieldReturn(ShieldAddFaces(shield_tree, fl), FaceListAfter(fl))
                ELSE LET mx == [a \in 1..3 |-> SetMax({fl[1].center[a], fl[2].center[a]})]
                         mn == [a \in 1..3 |-> SetMin({fl[1].center[a], fl[2].center[a]})]
                         sp == GetSplitPlane(mx, mn)
                         pt == MakeSplit(sp.ctr_pnt, sp.max_axis, fl)
                     IN  /\ stack' = SetTop([f EXCEPT !.pc = "emit", !.via = "pair",
                                   !.ctr_pnt = sp.ctr_pnt, !.max_axis = sp.max_axis,
                                   !.node_norm = sp.node_norm,
                                   !.front_list = pt.front_list, !.back_list = pt.back_list,
                                   !.max_pnt = NoPnt, !.min_pnt = NoPnt])
                         /\ UNCHANGED <<bInput, bsp_tree, bstatus, backStart, svars>>
           ELSE LET b == ShieldGetBounds(fl)
                    sp == GetSplitPlane(b.max_pnt, b.min_pnt)
                    pt == MakeSplit(sp.ctr_pnt, sp.max_axis, fl)
                IN  /\ stack' = SetTop([f EXCEPT !.pc = "recover", !.via = "initial",
                              !.max_pnt = b.max_pnt, !.min_pnt = b.min_pnt,
                              !.ctr_pnt = sp.ctr_pnt, !.max_axis = sp.max_axis,
                              !.node_norm = sp.node_norm,
                              !.front_list = pt.front_list, !.back_list = pt.back_list,
                              !.fnum = Len(pt.front_list), !.bnum = Len(pt.back_list),
                              !.num_tries = 0, !.real_tries = 0, !.ratio = 2 * NudgeStep])
                    /\ UNCHANGED <<bInput, bsp_tree, bstatus, backStart, svars>>
    /\ UNCHANGED << cvars, fvars >>

\* lines 2193-2222: one pass of the degenerate-split recovery loop
ShieldRecover ==
    /\ bstatus = "running" /\ stack # <<>> /\ Top.pc = "recover"
    /\ Top.fnum = 0 \/ Top.bnum = 0
    /\ LET f == Top
           rt == f.real_tries + 1
       IN  IF Panic(rt)
           THEN ShieldReturn(ShieldAddFaces(shield_tree, f.face_list), FaceListAfter(f.face_list))
           ELSE LET onBack == f.bnum # 0
                    nt == IF onBack THEN 1 ELSE f.num_tries + 1
                    ra == IF onBack THEN f.ratio \div 2 ELSE f.ratio
                    src == IF onBack THEN f.back_list ELSE f.front_list
                    b == ShieldGetBounds(src)
                    sp == GetSplitPlane(b.max_pnt, b.min_pnt)
                    ctr == [sp.ctr_pnt EXCEPT ![sp.max_axis] =
                               IF onBack THEN @ - ra * nt ELSE @ + ra * nt]
                    pt == MakeSplit(ctr, sp.max_axis, src)
                IN  /\ stack' = SetTop([f EXCEPT !.via = "recover",
                              !.num_tries = nt, !.real_tries = rt, !.ratio = ra,
                              !.ctr_pnt = ctr, !.max_axis = sp.max_axis,
                              !.node_norm = sp.node_norm,
                              !.front_list = pt.front_list, !.back_list = pt.back_list,
                              !.fnum = Len(pt.front_list), !.bnum = Len(pt.back_list)])
                    /\ UNCHANGED <<bInput, bsp_tree, bstatus, backStart, svars>>
    /\ UNCHANGED << cvars, fvars >>

\* line 2223: the recovery loop is left with both sides non-empty
ShieldRecoverExit ==
    /\ bstatus = "running" /\ stack # <<>> /\ Top.pc = "recover"
    /\ Top.fnum # 0 /\ Top.bnum # 0
    /\ stack' = SetTop([Top EXCEPT !.pc = "balance", !.num_tries = 0])
    /\ UNCHANGED <<bInput, bsp_tree, bstatus, backStart, svars>>
    /\ UNCHANGED << cvars, fvars >>

\* lines 2229-2239: one pass of the balance-refinement loop
ShieldBalance ==
    /\ bstatus = "running" /\ stack # <<>> /\ Top.pc = "balance"
    /\ Unbalanced(Top)
    /\ LET f == Top
           nt == f.num_tries + 1
           delta == f.max_pnt[f.max_axis] - f.min_pnt[f.max_axis]
           step == delta \div ((nt + 1) * (nt + 1))
           ctr == [f.ctr_pnt EXCEPT ![f.max_axis] =
                      IF f.fnum > f.bnum THEN @ + step ELSE @ - step]
           pt == MakeSplit(ctr, f.max_axis, f.face_list)
       IN  /\ stack' = SetTop([f EXCEPT !.via = "balance",
                     !.num_tries = nt, !.ctr_pnt = ctr,
                     !.front_list = pt.front_list, !.back_list = pt.back_list,
                     !.fnum = Len(pt.front_list), !.bnum = Len(pt.back_list)])
           /\ UNCHANGED <<bInput, bsp_tree, bstatus, backStart, svars>>
    /\ UNCHANGED << cvars, fvars >>

\* lines 2241-2244: after the balance loop, an empty side falls back to a leaf run
ShieldBalanceExit ==
    /\ bstatus = "running" /\ stack # <<>> /\ Top.pc = "balance"
    /\ ~Unbalanced(Top)
    /\ IF Top.fnum = 0 \/ Top.bnum = 0
       THEN ShieldReturn(ShieldAddFaces(shield_tree, Top.face_list), FaceListAfter(Top.face_list))
       ELSE /\ stack' = SetTop([Top EXCEPT !.pc = "emit"])
            /\ UNCHANGED <<bInput, bsp_tree, bstatus, backStart, svars>>
    /\ UNCHANGED << cvars, fvars >>

\* lines 2245-2254: the ShieldSplit node and the call on front_list
ShieldEmit ==
    /\ bstatus = "running" /\ stack # <<>> /\ Top.pc = "emit"
    /\ LET f == Top
           b == IF f.max_pnt = NoPnt \/ f.min_pnt = NoPnt
                THEN ShieldGetBounds(f.face_list)
                ELSE [max_pnt |-> f.max_pnt, min_pnt |-> f.min_pnt]
           node == [node_type |-> 0, front_offset |-> 37,
                    max |-> b.max_pnt, min |-> b.min_pnt,
                    back_set |-> FALSE, back_offset |-> 0]
       IN  /\ shield_tree' = shield_tree \o << node >>
           /\ Call([f EXCEPT !.pc = "front", !.cur_idx = Len(shield_tree) + 1,
                             !.max_pnt = b.max_pnt, !.min_pnt = b.min_pnt],
                   f.front_list)
           /\ UNCHANGED <<bInput, bsp_tree, backStart, leaf_faces>>
    /\ UNCHANGED << cvars, fvars >>

\* lines 2255-2262: back_offset, then the call on back_list
ShieldSetBack ==
    /\ bstatus = "running" /\ stack # <<>> /\ Top.pc = "front"
    /\ LET f == Top
       IN  /\ shield_tree' = [shield_tree EXCEPT ![f.cur_idx] =
                   [@ EXCEPT !.back_set = TRUE,
                             !.back_offset = ShieldBackOffset(shield_tree, f.cur_idx)]]
           /\ Call([f EXCEPT !.pc = "back"], f.back_list)
           /\ UNCHANGED <<bInput, bsp_tree, backStart, leaf_faces>>
    /\ UNCHANGED << cvars, fvars >>

\* the call on back_list has returned: the frame returns
ShieldDone ==
    /\ bstatus = "running" /\ stack # <<>> /\ Top.pc = "back"
    /\ ShieldReturn(shield_tree, leaf_faces)
    /\ UNCHANGED << cvars, fvars >>

ShieldInit ==
    /\ \E ks \in BspInputs : bInput = [i \in 1..Len(ks) |-> ShieldFace(i, ks[i])]
    /\ stack = <<>>
    /\ bsp_tree = <<>>
    /\ bstatus = "mesh"
    /\ backStart = << >>
    /\ shield_tree = <<>> /\ leaf_faces = <<>>
    /\ CodecIdle
    /\ FileIdle

ShieldNext ==
    \/ ShieldMake
    \/ ShieldStart
    \/ ShieldRecover
    \/ ShieldRecoverExit
    \/ ShieldBalance
    \/ ShieldBalanceExit
    \/ ShieldEmit
    \/ ShieldSetBack
    \/ ShieldDone

SpecShield == ShieldInit /\ [][ShieldNext]_vars

(***************************************************************************)
(* One object through write_chunk and read_chunk.                          *)
(***************************************************************************)
Versions == {2008, 2114, 2116, 2117}

IsChunk(c) == "cls" \in DOMAIN c

\* a HeaderChunk as a caller fills it in
HeaderObj(pof_ver, mass, xsect, lights, details, debris) ==
    [cls |-> "HeaderChunk", CHUNK_ID |-> HeaderInit(pof_ver), pof_ver |-> pof_ver,
     max_radius |-> 60, obj_flags |-> 0, num_subobjects |-> 2,
     min_bounding |-> <<-40, -40, -40>>, max_bounding |-> <<40, 40, 40>>,
     num_detail_levels |-> Len(details), sobj_detail_levels |-> details,
     num_debris |-> Len(debris), sobj_debris |-> debris,
     has_mass |-> TRUE, mass |-> mass, mass_center |-> <<0, 0, 0>>,
     inertia_tensor |-> << <<1, 0, 0>>, <<0, 1, 0>>, <<0, 0, 1>> >>,
     has_xsect |-> TRUE,
     cross_section_depth |-> xsect, cross_section_radius |-> xsect,
     has_lights |-> TRUE,
     light_locations |-> lights, light_types |-> [i \in 1..Len(lights) |-> 1]]

TextureObj(pof_ver, textures) ==
    [cls |-> "TextureChunk", CHUNK_ID |-> "TXTR", pof_ver |-> pof_ver,
     textures |-> textures]

MiscObj(pof_ver, lines) ==
    [cls |-> "MiscChunk", CHUNK_ID |-> "PINF", pof_ver |-> pof_ver, lines |-> lines]

CenterObj(pof_ver, co) ==
    [cls |-> "CenterChunk", CHUNK_ID |-> "ACEN", pof_ver |-> pof_ver, co |-> co]

\* a FuelChunk with one glow point in each of its thruster banks
FuelObj(pof_ver, props) ==
    [cls |-> "FuelChunk", CHUNK_ID |-> "FUEL", pof_ver |-> pof_ver,
     has_props |-> TRUE, thruster_properties |-> props,
     glow_pos |-> [i \in 1..Len(props) |-> << <<0, 0, -40>> >>],
     glow_norm |-> [i \in 1..Len(props) |-> << <<0, 0, -1>> >>],
     glow_radius |-> [i \in 1..Len(props) |-> << 8 >>]]

ShieldLeaf(face_list) ==
    [node_type |-> 1, min |-> <<-40, -40, -40>>, max |-> <<0, 40, 40>>,
     face_list |-> face_list]

ShieldSplit(back_offset) ==
    [node_type |-> 0, min |-> <<-40, -40, -40>>, max |-> <<40, 40, 40>>,
     front_offset |-> 37, back_offset |-> back_offset]

TreeObj(pof_ver, nodes) ==
    [cls |-> "TreeChunk", CHUNK_ID |-> "SLDC", pof_ver |-> pof_ver,
     has_tree |-> TRUE, shield_tree |-> nodes]

DefpointsObj ==
    [CHUNK_ID |-> 1, vert_list |-> VertTable,
     vert_norms |-> [i \in 1..Len(VertTable) |->
                       IF i = 1 THEN << <<0, 0, 400>>, <<0, 400, 0>> >>
                       ELSE << <<0, 0, 400>> >>]]

SortnormObj(back_offset) ==
    [CHUNK_ID |-> 4, plane_normal |-> <<1, 0, 0>>, plane_point |-> <<220, 0, 0>>,
     front_offset |-> 104, back_offset |-> back_offset, prelist_offset |-> 80,
     postlist_offset |-> 88, online_offset |-> 96,
     min |-> <<-40, -40, -40>>, max |-> <<480, 80, 40>>]

BoundboxObj(min, max) == [CHUNK_ID |-> 5, min |-> min, max |-> max]

\* a FlatpolyBlock as read_chunk fills it in
FlatpolyObj(vert_list) ==
    [CHUNK_ID |-> 2, normal |-> <<0, 0, 400>>, center |-> <<12, 12, 0>>,
     radius |-> 28, color |-> << 255, 0, 0, 0 >>,
     vert_list |-> vert_list, norm_list |-> [i \in 1..Len(vert_list) |-> 0]]

BlockObjects ==
    { EndBlock, DefpointsObj, SortnormObj(220), SortnormObj(-1),
      FlatpolyObj(<<0, 1, 2>>), FlatpolyObj(<<>>),
      TexpolyOf(Palette[1]), TexpolyOf(Palette[2]),
      BoundboxObj(<<-40, -40, -40>>, <<80, 80, 40>>),
      BoundboxObj(<<0, 0, 0>>, <<0, 0, 0>>) }

\* BSP data as the builder lays it out
BspTreeFull ==
    << DefpointsObj, SortnormObj(220), EndBlock, EndBlock, EndBlock,
       BoundboxObj(<<360, -40, -40>>, <<480, 80, 40>>), TexpolyOf(Palette[2]), EndBlock,
       BoundboxObj(<<-40, -40, -40>>, <<80, 80, 40>>), TexpolyOf(Palette[1]), EndBlock >>

BspTrees ==
    { <<>>,
      << DefpointsObj, BoundboxObj(<<-40, -40, -40>>, <<80, 80, 40>>),
         TexpolyOf(Palette[1]), EndBlock >>,
      BspTreeFull }

ModelObj(pof_ver, model_id, parent_id, name, properties, tree) ==
    [cls |-> "ModelChunk", CHUNK_ID |-> ModelInit(pof_ver), pof_ver |-> pof_ver,
     model_id |-> model_id, radius |-> 60, parent_id |-> parent_id,
     offset |-> <<0, 0, 0>>, center |-> <<20, 20, 0>>,
     min |-> <<-40, -40, -40>>, max |-> <<80, 80, 40>>,
     name |-> name, properties |-> properties,
     movement_type |-> -1, movement_axis |-> -1, bsp_tree |-> tree]

Strings == { <<>>, << 97 >>, << 104, 117, 108, 108 >> }

ChunkObjects ==
    UNION { { HeaderObj(pv, m, x, l, dl, db) :
                m \in {0, 50}, x \in {<<>>, << 8 >>}, l \in {<<>>, << <<0, 40, 0>> >>},
                dl \in {<<>>, << 0 >>}, db \in {<<>>, << 1 >>} }
            \cup { TextureObj(pv, t) : t \in {<<>>} \cup {<< s >> : s \in Strings}
                                              \cup {<< << 97 >>, s >> : s \in Strings} }
            \cup { MiscObj(pv, l) : l \in {<<>>, << << 97 >> >>} }
            \cup { CenterObj(pv, co) : co \in {<<0, 0, 0>>, <<4, -4, 0>>} }
            \cup { FuelObj(pv, p) : p \in {<<>>} \cup {<< s >> : s \in Strings}
                                         \cup {<< << 97 >>, s >> : s \in Strings} }
            \cup { TreeObj(pv, t) : t \in { << ShieldLeaf(<<>>) >>, << ShieldLeaf(<<0, 1>>) >>,
                                           << ShieldSplit(70), ShieldLeaf(<<0>>),
                                              ShieldLeaf(<<1>>) >> } }
            \cup { ModelObj(pv, 1, p, n, s, t) :
                     p \in {-1, 0}, n \in Strings, s \in Strings, t \in BspTrees }
          : pv \in Versions }

\* the bytes write_chunk emitted after the 8-byte header
Payload(bytes) == SubSeq(bytes, 9, Len(bytes))

CodecInit ==
    /\ cObj \in ChunkObjects \cup BlockObjects
    /\ cOut = Raised("unwritten")
    /\ cBack = EndBlock
    /\ cPc = "new"
    /\ BspIdle
    /\ FileIdle

\* write_chunk() on the object
CodecWrite ==
    /\ cPc = "new"
    /\ cOut' = IF IsChunk(cObj) THEN ChunkWrite(cObj)
               ELSE IF BlockRaises(cObj) THEN Raised("NameError")
               ELSE Written(BlockWrite(cObj))
    /\ cPc' = "written"
    /\ UNCHANGED << cObj, cBack, bvars, fvars >>

\* read_chunk() of a new object of the same class on the bytes written
CodecRead ==
    /\ cPc = "written"
    /\ cOut.err = "none"
    /\ cBack' = IF IsChunk(cObj)
                THEN ChunkRead(cObj.CHUNK_ID, Payload(cOut.bytes), cObj.pof_ver)
                ELSE BlockRead(cObj.CHUNK_ID, Payload(cOut.bytes))
    /\ cPc' = "read"
    /\ UNCHANGED << cObj, cOut, bvars, fvars >>

CodecNext ==
    \/ CodecWrite
    \/ CodecRead

SpecCodec == CodecInit /\ [][CodecNext]_vars

(***************************************************************************)
(* PolyModel.  chunks is the dict of the chunks other than submodels, a    *)
(* function of its keys.  header is the key under which chunks holds the   *)
(* object self.header refers to ("none" when there is no such attribute).  *)
(* submodels is the dict of the submodels in insertion order; the key of   *)
(* an entry is its model_id.                                               *)
(***************************************************************************)
DictSet(d, k, v) == [x \in DOMAIN d \cup {k} |-> IF x = k THEN v ELSE d[x]]
DictDel(d, k) == [x \in DOMAIN d \ {k} |-> d[x]]

\* self.submodels[chunk.model_id] = chunk
SubmodelSet(submodels, chunk) ==
    IF \E i \in 1..Len(submodels) : submodels[i].model_id = chunk.model_id
    THEN [i \in 1..Len(submodels) |->
            IF submodels[i].model_id = chunk.model_id THEN chunk ELSE submodels[i]]
    ELSE Append(submodels, chunk)

\* the loop of PolyModel.__init__ over the chunks not yet stored
RECURSIVE PolyModelAdd(_, _)
PolyModelAdd(m, chunk_list) ==
    IF chunk_list = <<>> THEN m
    ELSE LET chunk == Head(chunk_list)
             m1 == IF chunk.CHUNK_ID \in {"HDR2", "OHDR"}
                   THEN [m EXCEPT !.header = chunk.CHUNK_ID] ELSE m
             m2 == IF chunk.CHUNK_ID \in {"OBJ2", "SOBJ"}
                   THEN [m1 EXCEPT !.submodels = SubmodelSet(@, chunk)]
                   ELSE IF chunk.CHUNK_ID \in {" EYE", "EYE "}
                   THEN [m1 EXCEPT !.chunks = DictSet(@, "EYE", chunk)]
                   ELSE [m1 EXCEPT !.chunks = DictSet(@, chunk.CHUNK_ID, chunk)]
         IN  PolyModelAdd(m2, Tail(chunk_list))

PolyModel(chunk_list, pof_ver) ==
    PolyModelAdd([pof_ver |-> pof_ver, header |-> "none", chunks |-> <<>>,
                  submodels |-> <<>>], chunk_list)

\* PolyModel.get_chunk_list
PyInsert(list, i, x) ==
    IF i >= Len(list) THEN Append(list, x)
    ELSE SubSeq(list, 1, i) \o << x >> \o SubSeq(list, i + 1, Len(list))

RECURSIVE InsertFrom(_, _, _)
InsertFrom(list, submodels, i) ==
    IF submodels = <<>> THEN list
    ELSE InsertFrom(PyInsert(list, i, Head(submodels)), Tail(submodels), i + 1)

RECURSIVE SlotsFrom(_, _)
SlotsFrom(chunks, idx) ==
    IF idx > 15 THEN <<>>
    ELSE (IF \E k \in DOMAIN chunks : chunk_order[k] = idx
          THEN << chunks[CHOOSE k \in DOMAIN chunks : chunk_order[k] = idx] >>
          ELSE <<>>)
         \o SlotsFrom(chunks, idx + 1)

get_chunk_list(m) == InsertFrom(SlotsFrom(m.chunks, 0), m.submodels, 2)

\* line 313: chunk_order[chunk] of a key that chunk_order does not have
NoOrder(m) == \E k \in DOMAIN m.chunks : k \notin DOMAIN chunk_order

(***************************************************************************)
(* PolyModel.verify_pof.  The result is the model as the call leaves it    *)
(* and the exception it raised.                                            *)
(***************************************************************************)
\* 4.65 * (vol_mass ** 2 / 3)
MassToArea(vol_mass) == (31 * vol_mass * vol_mass) \div 20

RECURSIVE IsqrtFrom(_, _)
IsqrtFrom(q, r) == IF (r + 1) * (r + 1) > q THEN r ELSE IsqrtFrom(q, r + 1)

\* abs(2 * sqrt(5 / 31) * sqrt(area_mass))
AreaToVol(area_mass) == IsqrtFrom((20 * area_mass) \div 31, 0)

VerifyMassAlways(header_ver, pof_ver, mass) ==
    IF pof_ver >= 2009 THEN MassToArea(mass) ELSE mass

\* lines 348-363: header.mass after the conversion; header_ver is
\* header.pof_ver as the comparison finds it
VerifyMass(header_ver, pof_ver, mass) ==
    IF pof_ver >= 2009 /\ header_ver < 2009 THEN MassToArea(mass)
    ELSE IF pof_ver < 2009 /\ header_ver >= 2009 THEN AreaToVol(mass)
    ELSE mass

\* lines 387-399: the submodel the loop raises InvalidChunkError on, 0 if none
FirstBadSubmodel(submodels, num_subobjects) ==
    LET bad == {i \in 1..Len(submodels) :
                  \/ \E j \in 1..(i - 1) : submodels[j].model_id = submodels[i].model_id
                  \/ submodels[i].parent_id >= num_subobjects}
    IN  IF bad = {} THEN 0 ELSE SetMin(bad)

\* lines 388-391 on the first n submodels
RetagSubmodels(submodels, n, pof_ver) ==
    [i \in 1..Len(submodels) |->
        IF i <= n THEN [submodels[i] EXCEPT !.CHUNK_ID = ModelInit(pof_ver)]
        ELSE submodels[i]]

\* the result of verify_pof: the model as the call leaves it and the
\* exception it raised
Left(m, e) == [m |-> m, err |-> e]

\* lines 327-333: every chunk and submodel gets the version
VerifyVersions(m, pof_ver) ==
    [m EXCEPT !.pof_ver = pof_ver,
              !.chunks = [k \in DOMAIN @ |-> [@[k] EXCEPT !.pof_ver = pof_ver]],
              !.submodels = [i \in 1..Len(@) |-> [@[i] EXCEPT !.pof_ver = pof_ver]]]

\* lines 339-346: the header tag and its key in chunks
VerifyHeaderTag(m, tag) ==
    IF m.header = tag THEN m
    ELSE [m EXCEPT !.header = tag,
                   !.chunks = DictDel(DictSet(@, tag, [@[m.header] EXCEPT !.CHUNK_ID = tag]),
                                      m.header)]

\* lines 348 and 356: one of the two conversions is due
Converts(header_ver, pof_ver) ==
    \/ pof_ver >= 2009 /\ header_ver < 2009
    \/ pof_ver < 2009 /\ header_ver >= 2009

\* lines 348-365 on the header
VerifyHeaderMass(header, pof_ver, num_subobjects) ==
    [header EXCEPT !.mass = VerifyMass(header.pof_ver, pof_ver, @),
                   !.num_subobjects = num_subobjects]

\* lines 366-375: the header names a submodel as debris and as detail level,
\* or names one that does not exist
BadHeaderLists(header) ==
    LET sobj_debris == {header.sobj_debris[i] : i \in 1..Len(header.sobj_debris)}
        sobj_details == {header.sobj_detail_levels[i] :
                           i \in 1..Len(header.sobj_detail_levels)}
    IN  \/ sobj_debris \cap sobj_details # {}
        \/ \E i \in sobj_debris \cup sobj_details : i >= header.num_subobjects

\* lines 400-420 on the header
VerifyHeaderBounds(header, subs) ==
    LET max_pnt == [a \in 1..3 |-> SetMax({subs[i].max[a] : i \in 1..Len(subs)})]
    IN  [header EXCEPT
           !.max_radius = SetMax(UNION {{subs[i].max[a] - subs[i].center[a],
                                         subs[i].center[a] - subs[i].min[a]} :
                                            i \in 1..Len(subs), a \in 1..3}),
           !.max_bounding = max_pnt,
           !.min_bounding = max_pnt]

\* lines 424-429
VerifyCenter(chunks, pof_ver) ==
    IF "ACEN" \in DOMAIN chunks /\ pof_ver < 2116 THEN DictDel(chunks, "ACEN")
    ELSE IF "ACEN" \notin DOMAIN chunks /\ pof_ver >= 2116
      THEN DictSet(chunks, "ACEN", CenterObj(2117, <<0, 0, 0>>))
    ELSE chunks

VerifyTreeKeep(chunks, pof_ver) == chunks

\* lines 433-443 when no tree is made: a tree is deleted when there is no
\* shield mesh or the version has no tree
VerifyTree(chunks, pof_ver) ==
    IF "SLDC" \in DOMAIN chunks /\ ("SHLD" \notin DOMAIN chunks \/ pof_ver < 2117)
    THEN DictDel(chunks, "SLDC")
    ELSE chunks

\* lines 436-438: sldc.make_shield_collision_tree(chunks["SHLD"]) is called.
\* It takes the Mesh of ShieldChunk.get_mesh, which has verts and faces, and
\* reads m.face_list (line 2089): AttributeError
MakesTree(chunks, pof_ver) ==
    "SHLD" \in DOMAIN chunks /\ "SLDC" \notin DOMAIN chunks /\ pof_ver >= 2117

\* PolyModel.get_submodel_by_name for a name that is a bytes object, as
\* read_chunk makes the names of a PathChunk: bytes(name, "utf-8") raises
\* TypeError before the submodels are looked at
get_submodel_by_name(submodels, name) == "TypeError"

\* the submodel is debris, a detail level, or at or past bound
NotTurret(header, t, bound) ==
    \/ \E i \in 1..Len(header.sobj_debris) : header.sobj_debris[i] = t
    \/ \E i \in 1..Len(header.sobj_detail_levels) : header.sobj_detail_levels[i] = t
    \/ t >= bound

\* lines 445-456: the exception the PATH chunk makes verify_pof raise; the
\* first parent name is looked up before it is compared with b''
PathError(path, submodels, header) ==
    IF path.path_parents # <<>>
    THEN get_submodel_by_name(submodels, path.path_parents[1])
    ELSE IF \E i \in 1..Len(path.turret_sobj_num) :
              \E j \in 1..Len(path.turret_sobj_num[i]) :
                 \E k \in 1..Len(path.turret_sobj_num[i][j]) :
                    NotTurret(header, path.turret_sobj_num[i][j][k], header.num_subobjects)
      THEN "InvalidChunkError"
    ELSE "none"

\* lines 467-490 for one of TGUN and TMIS: the barrel loop compares with
\* i > header.num_subobjects, and the base loop subscripts chunk, the
\* ModelChunk the loop of line 332 has left in it: TypeError
TurretError(turret, header) ==
    IF \E j \in 1..Len(turret.barrel_sobj) :
          NotTurret(header, turret.barrel_sobj[j], header.num_subobjects + 1)
    THEN "InvalidChunkError"
    ELSE "TypeError"

\* lines 467-490
VerifyTurrets(m) ==
    IF "TGUN" \in DOMAIN m.chunks
    THEN Left(m, TurretError(m.chunks["TGUN"], m.chunks[m.header]))
    ELSE IF "TMIS" \in DOMAIN m.chunks
      THEN Left(m, TurretError(m.chunks["TMIS"], m.chunks[m.header]))
    ELSE Left(m, "none")

\* lines 445-456
VerifyPaths(m) ==
    IF "PATH" \in DOMAIN m.chunks
       /\ PathError(m.chunks["PATH"], m.submodels, m.chunks[m.header]) # "none"
    THEN Left(m, PathError(m.chunks["PATH"], m.submodels, m.chunks[m.header]))
    ELSE VerifyTurrets(m)

\* lines 433-443
VerifyShield(m, pof_ver) ==
    IF MakesTree(m.chunks, pof_ver) THEN Left(m, "AttributeError")
    ELSE VerifyPaths([m EXCEPT !.chunks = VerifyTree(@, pof_ver)])

\* lines 422-519: of the chunks verified after the submodels the models here
\* hold ACEN, SHLD, SLDC, PATH, TGUN and TMIS only
VerifyRest(m, pof_ver) ==
    VerifyShield([m EXCEPT !.chunks = VerifyCenter(@, pof_ver)], pof_ver)

\* lines 412-420
VerifyBounds(m, pof_ver) ==
    IF m.submodels = <<>> THEN Left(m, "ValueError")
    ELSE VerifyRest([m EXCEPT !.chunks[m.header] = VerifyHeaderBounds(@, m.submodels)],
                    pof_ver)

\* lines 379-411
VerifySubmodels(m, pof_ver, bad) ==
    IF bad # 0
    THEN Left([m EXCEPT !.submodels = RetagSubmodels(@, bad, pof_ver)], "InvalidChunkError")
    ELSE VerifyBounds([m EXCEPT !.submodels = RetagSubmodels(@, Len(@), pof_ver)], pof_ver)

\* lines 366-375
VerifyLists(m, pof_ver) ==
    IF BadHeaderLists(m.chunks[m.header]) THEN Left(m, "InvalidChunkError")
    ELSE VerifySubmodels(m, pof_ver, FirstBadSubmodel(m.submodels, Len(m.submodels)))

\* lines 348-365
VerifyHeader(m, pof_ver) ==
    IF Converts(m.chunks[m.header].pof_ver, pof_ver) /\ ~m.chunks[m.header].has_mass
    THEN Left(m, "AttributeError")
    ELSE VerifyLists([m EXCEPT !.chunks[m.header] =
                         VerifyHeaderMass(@, pof_ver, Len(m.submodels))], pof_ver)

\* lines 337-346
VerifyTagged(m, pof_ver) ==
    IF m.header = "none" THEN Left(m, "AttributeError")
    ELSE VerifyHeader(VerifyHeaderTag(m, HeaderInit(pof_ver)), pof_ver)

VerifyPof(m, pof_ver) == VerifyTagged(VerifyVersions(m, pof_ver), pof_ver)

(***************************************************************************)
(* write_pof and read_pof.                                                 *)
(***************************************************************************)
Magic == << 80, 83, 80, 79 >>

\* lines 2663-2667 on the results of write_chunk for the chunks of the list
WriteJoin(m, pof_version, outs, bad) ==
    IF bad # {}
    THEN [m |-> m, bytes |-> <<>>,
          err |-> IF outs[SetMin(bad)].err = "False" THEN "TypeError"
                  ELSE outs[SetMin(bad)].err]
    ELSE [m |-> m, err |-> "none",
          bytes |-> Magic \o pack_int(pof_version)
                    \o Concat([i \in 1..Len(outs) |-> outs[i].bytes])]

WriteChunks(m, pof_version, outs) ==
    WriteJoin(m, pof_version, outs, {i \in 1..Len(outs) : outs[i].err # "none"})

WriteList(m, pof_version, chunk_list) ==
    WriteChunks(m, pof_version, [i \in 1..Len(chunk_list) |-> ChunkWrite(chunk_list[i])])

\* lines 2659-2667 on the result of verify_pof
WriteVerified(r, pof_version) ==
    IF r.err # "none" THEN [m |-> r.m, err |-> r.err, bytes |-> <<>>]
    ELSE IF NoOrder(r.m) THEN [m |-> r.m, err |-> "KeyError", bytes |-> <<>>]
    ELSE WriteList(r.m, pof_version, get_chunk_list(r.m))

\* the result is the model as verify_pof leaves it, the exception raised,
\* and the bytes returned
WritePof(polymodel, pof_version) ==
    WriteVerified(VerifyPof(polymodel, pof_version), pof_version)

\* the position of the file after read(length) at position pos
FileTell(data, pos, length) ==
    IF pos >= Len(data) THEN pos
    ELSE IF length < 0 THEN Len(data)
    ELSE IF length >= Len(data) - pos THEN Len(data)
    ELSE pos + length

FileSeekStay(data, pos, offset) == pos

\* the position after seek(offset, 1) at position pos, -1 when the file
\* refuses it; a position past the end is kept as the end, where every read
\* is empty as well
FileSeek(data, pos, offset) ==
    IF offset < 0 THEN (IF pos + offset < 0 THEN -1 ELSE pos + offset)
    ELSE IF offset >= Len(data) - pos THEN Len(data)
    ELSE pos + offset

\* the loop of read_pof from position pos; seen holds the positions at which
\* the loop has started a chunk, and starting one there again is a loop
\* without end
RECURSIVE ReadChunks(_, _, _, _)
ReadChunks(file, pos, file_version, seen) ==
    LET chunk_id == FileRead(file, pos, 4)
        p1 == FileTell(file, pos, 4)
        chunk_length == unpack_int(FileRead(file, p1, 4))
        p2 == FileTell(file, p1, 4)
        p3 == FileSeek(file, p2, chunk_length)
        rest == ReadChunks(file, FileTell(file, p2, chunk_length), file_version,
                           seen \cup {pos})
    IN  IF chunk_id = <<>> THEN [err |-> "none", chunk_list |-> <<>>]
        ELSE IF pos \in seen THEN [err |-> "hang", chunk_list |-> <<>>]
        ELSE IF \E t \in Tags : TagBytes[t] = chunk_id
          THEN [err |-> rest.err,
                chunk_list |->
                    << ChunkRead(CHOOSE t \in Tags : TagBytes[t] = chunk_id,
                                 FileRead(file, p2, chunk_length), file_version) >>
                    \o rest.chunk_list]
        ELSE IF p3 < 0 THEN [err |-> "OSError", chunk_list |-> <<>>]
        ELSE ReadChunks(file, p3, file_version, seen \cup {pos})

TooNewNever(file_version) == FALSE

\* line 2628
TooNew(file_version) == file_version > 2117

\* lines 2652-2654 on the result of the loop
ReadDone(r, file_version) ==
    IF r.err # "none" THEN [err |-> r.err, m |-> <<>>]
    ELSE [err |-> "none", m |-> PolyModel(r.chunk_list, file_version)]

\* lines 2626-2654
ReadVersion(file, file_version) ==
    IF TooNew(file_version) THEN [err |-> "FileFormatError", m |-> <<>>]
    ELSE ReadDone(ReadChunks(file, 8, file_version, {}), file_version)

\* the result is the exception raised and the PolyModel returned
ReadPof(file) ==
    IF FileRead(file, 0, 4) # Magic THEN [err |-> "FileFormatError", m |-> <<>>]
    ELSE ReadVersion(file, unpack_int(FileRead(file, 4, 4)))

(***************************************************************************)
(* Chunk lists as read_pof hands them to PolyModel: the objects carry the  *)
(* attributes read_chunk sets at the version of the file.                  *)
(***************************************************************************)
HeaderAt(pv, mass, xsect, lights, details, debris) ==
    [HeaderObj(pv, mass, IF pv >= 2014 THEN xsect ELSE <<>>, lights, details, debris)
        EXCEPT !.has_xsect = pv >= 2014]

FuelAt(pv, props) ==
    IF pv >= 2117 THEN FuelObj(pv, props)
    ELSE [FuelObj(pv, props) EXCEPT !.has_props = FALSE, !.thruster_properties = <<>>]

SmallTree == << BoundboxObj(<<-40, -40, -40>>, <<80, 80, 40>>), EndBlock >>

Sub(pv, model_id, parent_id, properties) ==
    ModelObj(pv, model_id, parent_id, << 104, 117, 108, 108 >>, properties, SmallTree)

\* the submodel chunks of a file
SubmodelLists(pv) ==
    { << Sub(pv, 0, -1, << 97 >>) >>,
      << Sub(pv, 0, -1, <<>>) >>,
      << Sub(pv, 0, -1, << 97 >>), Sub(pv, 1, 0, << 97 >>) >>,
      << Sub(pv, 0, -1, << 97 >>), Sub(pv, 1, 0, <<>>) >>,
      << [Sub(pv, 0, -1, << 97 >>) EXCEPT !.bsp_tree = BspTreeFull] >>,
      <<>>,
      << Sub(pv, 0, 0, << 97 >>) >>,
      << Sub(pv, 0, -1, << 97 >>), Sub(pv, 1, 1, << 97 >>) >>,
      << Sub(pv, 0, -1, << 97 >>), Sub(pv, 2, 1, << 97 >>) >>,
      << Sub(pv, 0, -1, << 97 >>), Sub(pv, 1, 5, << 97 >>) >>,
      << Sub(pv, 0, 1, << 97 >>) >>,
      << Sub(pv, 0, -1, << 97 >>), Sub(pv, 0, -1, << 98 >>) >>,
      << Sub(pv, 0, -1, << 97 >>), Sub(pv, 1, 0, << 97 >>), Sub(pv, 1, 0, << 98 >>) >> }

\* the header chunk of a file
Headers(pv) ==
    { HeaderAt(pv, 50, <<>>, <<>>, <<>>, <<>>),
      HeaderAt(pv, 0, <<>>, <<>>, <<>>, <<>>),
      HeaderAt(pv, 50, << 8 >>, <<>>, <<>>, <<>>),
      HeaderAt(pv, 50, <<>>, << <<0, 40, 0>> >>, <<>>, <<>>),
      HeaderAt(pv, 50, <<>>, <<>>, << 0 >>, << 1 >>),
      HeaderAt(pv, 50, <<>>, <<>>, << 0 >>, << 0 >>),
      HeaderAt(pv, 50, <<>>, <<>>, <<>>, << 5 >>) }

\* the other chunks of a file
Extras(pv) ==
    { <<>>,
      << TextureObj(pv, << << 97 >> >>) >>,
      << TextureObj(pv, << <<>> >>) >>,
      << CenterObj(pv, <<4, -4, 0>>) >>,
      << FuelAt(pv, <<>>) >>,
      << FuelAt(pv, << << 97 >> >>) >>,
      << TreeObj(pv, << ShieldLeaf(<<0, 1>>) >>) >>,
      << MiscObj(pv, << << 97 >> >>) >>,
      << TextureObj(pv, << << 97 >> >>), CenterObj(pv, <<4, -4, 0>>),
         FuelAt(pv, << << 97 >> >>) >> }

\* a file has its textures first, then the header, the submodels and the rest
ChunkLists(pv) ==
    LET h1 == HeaderAt(pv, 50, <<>>, <<>>, <<>>, <<>>)
        s2 == << Sub(pv, 0, -1, << 97 >>), Sub(pv, 1, 0, << 97 >>) >>
    IN  { << h >> \o s2 : h \in Headers(pv) }
        \cup { << h1 >> \o s : s \in SubmodelLists(pv) }
        \cup { (IF x # <<>> /\ x[1].CHUNK_ID = "TXTR" THEN << x[1], h1 >> \o s2 \o Tail(x)
                ELSE << h1 >> \o s2 \o x) : x \in Extras(pv) }
        \cup { << HeaderAt(pv, 0, <<>>, <<>>, <<>>, <<>>), Sub(pv, 0, -1, <<>>) >> }

Sources == UNION { { [chunks |-> cl, pof_ver |-> pv] : cl \in ChunkLists(pv) } : pv \in Versions }

(***************************************************************************)
(* A PolyModel through verify_pof, write_pof and read_pof.                 *)
(***************************************************************************)
FileInit ==
    /\ fSrc \in Sources
    /\ fTarget \in Versions
    /\ fModel = <<>>
    /\ fPrev = <<>>
    /\ fErr = "none"
    /\ fOut1 = <<>>
    /\ fOut2 = <<>>
    /\ fPc = "init"
    /\ BspIdle
    /\ CodecIdle

\* poly_model = PolyModel(chunk_list, file_version)
FileConstruct ==
    /\ fPc = "init"
    /\ fModel' = PolyModel(fSrc.chunks, fSrc.pof_ver)
    /\ fPc' = "built"
    /\ UNCHANGED << fSrc, fTarget, fPrev, fErr, fOut1, fOut2, bvars, cvars >>

\* polymodel.verify_pof(fTarget) on the new model
FileVerify ==
    /\ fPc = "built"
    /\ LET r == VerifyPof(fModel, fTarget)
       IN  fModel' = r.m /\ fErr' = r.err
    /\ fPrev' = fModel
    /\ fPc' = "verified"
    /\ UNCHANGED << fSrc, fTarget, fOut1, fOut2, bvars, cvars >>

\* a second polymodel.verify_pof(fTarget) after the first has succeeded
FileVerifyAgain ==
    /\ fPc = "verified" /\ fErr = "none"
    /\ LET r == VerifyPof(fModel, fTarget)
       IN  fModel' = r.m /\ fErr' = r.err
    /\ fPrev' = fModel
    /\ fPc' = "verified2"
    /\ UNCHANGED << fSrc, fTarget, fOut1, fOut2, bvars, cvars >>

\* polymodel.verify_pof back to the version the model was read at
FileVerifyBack ==
    /\ fPc = "verified" /\ fErr = "none"
    /\ LET r == VerifyPof(fModel, fSrc.pof_ver)
       IN  fModel' = r.m /\ fErr' = r.err
    /\ fPrev' = fModel
    /\ fPc' = "back"
    /\ UNCHANGED << fSrc, fTarget, fOut1, fOut2, bvars, cvars >>

\* write_pof(polymodel, fTarget) on the new model
FileWrite ==
    /\ fPc = "built"
    /\ LET w == WritePof(fModel, fTarget)
       IN  fModel' = w.m /\ fErr' = w.err /\ fOut1' = w.bytes
    /\ fPrev' = fModel
    /\ fPc' = "written"
    /\ UNCHANGED << fSrc, fTarget, fOut2, bvars, cvars >>

\* a second write_pof(polymodel, fTarget) on the same model
FileWriteAgain ==
    /\ fPc = "written" /\ fErr = "none"
    /\ LET w == WritePof(fModel, fTarget)
       IN  fModel' = w.m /\ fErr' = w.err /\ fOut2' = w.bytes
    /\ fPrev' = fModel
    /\ fPc' = "written2"
    /\ UNCHANGED << fSrc, fTarget, fOut1, bvars, cvars >>

\* read_pof on the bytes write_pof returned
FileReread ==
    /\ fPc = "written" /\ fErr = "none"
    /\ LET r == ReadPof(fOut1)
       IN  fModel' = r.m /\ fErr' = r.err
    /\ fPrev' = fModel
    /\ fPc' = "reread"
    /\ UNCHANGED << fSrc, fTarget, fOut1, fOut2, bvars, cvars >>

\* write_pof(read_pof(...), fTarget)
FileRewrite ==
    /\ fPc = "reread" /\ fErr = "none"
    /\ LET w == WritePof(fModel, fTarget)
       IN  fModel' = w.m /\ fErr' = w.err /\ fOut2' = w.bytes
    /\ fPrev' = fModel
    /\ fPc' = "rewritten"
    /\ UNCHANGED << fSrc, fTarget, fOut1, bvars, cvars >>

FileNext ==
    \/ FileConstruct
    \/ FileVerify
    \/ FileVerifyAgain
    \/ FileVerifyBack
    \/ FileWrite
    \/ FileWriteAgain
    \/ FileReread
    \/ FileRewrite

SpecFile == FileInit /\ [][FileNext]_vars

(***************************************************************************)
(* verify_pof on models with a shield mesh, paths and turrets.             *)
(***************************************************************************)
\* a ShieldChunk as read_chunk fills it in
ShieldObj(pof_ver) ==
    [cls |-> "ShieldChunk", CHUNK_ID |-> "SHLD", pof_ver |-> pof_ver,
     vert_list |-> << <<0, 0, 0>>, <<40, 0, 0>>, <<0, 40, 0>> >>,
     face_normals |-> << <<0, 0, 1>> >>, face_list |-> << <<0, 1, 2>> >>,
     face_neighbors |-> << <<0, 0, 0>> >>]

\* a PathChunk as read_chunk fills it in: each path has one vertex, with the
\* turrets given
PathObj(pof_ver, parents, turrets) ==
    [cls |-> "PathChunk", CHUNK_ID |-> "PATH", pof_ver |-> pof_ver,
     path_names |-> [i \in 1..Len(parents) |-> << 36, 112 >>],
     path_parents |-> parents,
     vert_list |-> [i \in 1..Len(parents) |-> << <<0, 0, 80>> >>],
     vert_rad |-> [i \in 1..Len(parents) |-> << 8 >>],
     turret_sobj_num |-> [i \in 1..Len(parents) |-> << turrets[i] >>]]

\* a TurretChunk as read_chunk fills it in: banks is a list of
\* << barrel, base >>
TurretObj(pof_ver, tag, banks) ==
    [cls |-> "TurretChunk", CHUNK_ID |-> tag, pof_ver |-> pof_ver,
     barrel_sobj |-> [i \in 1..Len(banks) |-> banks[i][1]],
     base_sobj |-> [i \in 1..Len(banks) |-> banks[i][2]],
     turret_norm |-> [i \in 1..Len(banks) |-> <<0, 1, 0>>],
     firing_points |-> [i \in 1..Len(banks) |-> << <<0, 8, 0>> >>]]

\* the submodel references of a turret bank or a path vertex
Refs == {0, 1, 2, 3, 4, 7}

\* the chunks of a file after its header and four submodels, of which
\* submodel 0 is a detail level and submodel 1 is debris
VerifyExtras(pv) ==
    { <<>>,
      << ShieldObj(pv) >>,
      << TreeObj(pv, << ShieldLeaf(<<0>>) >>) >>,
      << ShieldObj(pv), TreeObj(pv, << ShieldLeaf(<<0>>) >>) >>,
      << PathObj(pv, <<>>, <<>>) >>,
      << PathObj(pv, << <<>> >>, << <<>> >>) >>,
      << PathObj(pv, << << 104, 117, 108, 108 >> >>, << <<>> >>) >>,
      << PathObj(pv, << << 120 >> >>, << <<>> >>) >> }
    \cup { << PathObj(pv, << <<>> >>, << << t >> >>) >> : t \in Refs }
    \cup { << TurretObj(pv, tag, << << a, b >> >>) >> :
              tag \in {"TGUN", "TMIS"}, a \in Refs, b \in Refs }
    \cup { << TurretObj(pv, "TGUN", <<>>) >>,
           << TurretObj(pv, "TGUN", << <<2, 3>> >>), TurretObj(pv, "TMIS", << <<7, 3>> >>) >> }

VerifySources ==
    UNION { { [pof_ver |-> pv,
               chunks |-> << HeaderAt(pv, 50, <<>>, <<>>, << 0 >>, << 1 >>),
                             Sub(pv, 0, -1, << 97 >>), Sub(pv, 1, 0, << 97 >>),
                             Sub(pv, 2, 0, << 97 >>), Sub(pv, 3, 2, << 97 >>) >> \o x] :
                x \in VerifyExtras(pv) } : pv \in Versions }

VerifyInit ==
    /\ fSrc \in VerifySources
    /\ fTarget \in Versions
    /\ fModel = <<>>
    /\ fPrev = <<>>
    /\ fErr = "none"
    /\ fOut1 = <<>>
    /\ fOut2 = <<>>
    /\ fPc = "init"
    /\ BspIdle
    /\ CodecIdle

VerifyNext ==
    \/ FileConstruct
    \/ FileVerify
    \/ FileVerifyAgain

SpecVerify == VerifyInit /\ [][VerifyNext]_vars

(***************************************************************************)
(* read_pof on files: the chunks of a chunk list as write_chunk writes     *)
(* them, with a chunk of an unknown tag put between them, and with the     *)
(* magic and version given.                                                *)
(***************************************************************************)
\* a chunk whose tag, JUNK, is not in chunk_dict
Unknown(payload) == << 74, 85, 78, 75 >> \o pack_int(Len(payload)) \o payload

\* the last has a payload that looks like a submodel chunk
Unknowns ==
    { Unknown(<<>>), Unknown(<< 1, 2, 3, 4 >>),
      Unknown(TagBytes["OBJ2"] \o pack_int(0)) }

\* the chunk lists whose chunks write_chunk writes with the length of their
\* payload
ReadLists(pv) ==
    { cl \in ChunkLists(pv) :
        \A i \in 1..Len(cl) :
            /\ ChunkWrite(cl[i]).err = "none"
            /\ ChunkLen(cl[i]) = Len(ChunkWrite(cl[i]).bytes) - 8 }

ReadSources ==
    UNION { { [pof_ver |-> pv, chunks |-> cl, at |-> k, unknown |-> u,
               magic |-> Magic, version |-> pv] :
                 cl \in ReadLists(pv), k \in 0..2, u \in Unknowns } : pv \in Versions }
    \cup { [pof_ver |-> 2117, chunks |-> cl, at |-> 0, unknown |-> <<>>,
            magic |-> mg, version |-> v] :
              cl \in { << HeaderAt(2117, 50, <<>>, <<>>, <<>>, <<>>),
                          Sub(2117, 0, -1, << 97 >>) >> },
              mg \in { Magic, << 80, 83, 80, 80 >>, << 79, 80, 83, 80 >>, << 0, 0, 0, 0 >> },
              v \in { -1, 0, 2116, 2117, 2118, 2200, 65536 } }

\* the bytes of the file, with the chunk of the unknown tag or without it
FileOf(src, unknown) ==
    src.magic \o pack_int(src.version)
    \o Concat([i \in 1..Len(src.chunks) |-> ChunkWrite(src.chunks[i]).bytes
                                            \o (IF i = src.at THEN unknown ELSE <<>>)])

SkipFile(src) ==
    IF src.at = 0
    THEN SubSeq(FileOf(src, <<>>), 1, 8) \o src.unknown
         \o SubSeq(FileOf(src, <<>>), 9, Len(FileOf(src, <<>>)))
    ELSE FileOf(src, src.unknown)

ReadInit ==
    /\ fSrc \in ReadSources
    /\ fTarget = fSrc.version
    /\ fModel = <<>>
    /\ fPrev = <<>>
    /\ fErr = "none"
    /\ fOut1 = SkipFile(fSrc)
    /\ fOut2 = FileOf(fSrc, <<>>)
    /\ fPc = "init"
    /\ BspIdle
    /\ CodecIdle

\* read_pof on the file without the chunk of the unknown tag
FileReadPlain ==
    /\ fPc = "init"
    /\ fPrev' = ReadPof(fOut2)
    /\ fPc' = "plain"
    /\ UNCHANGED << fSrc, fTarget, fModel, fErr, fOut1, fOut2, bvars, cvars >>

\* read_pof on the file with it
FileReadSkip ==
    /\ fPc = "plain"
    /\ LET r == ReadPof(fOut1)
       IN  fModel' = r.m /\ fErr' = r.err
    /\ fPc' = "skipped"
    /\ UNCHANGED << fSrc, fTarget, fPrev, fOut1, fOut2, bvars, cvars >>

ReadNext ==
    \/ FileReadPlain
    \/ FileReadSkip

SpecRead == ReadInit /\ [][ReadNext]_vars

(***************************************************************************)
(* A RawData object through read and seek.  cObj is the object, cBack the  *)
(* object before the last call with the length asked for, cOut what the    *)
(* last read returned.                                                     *)
(***************************************************************************)
RawDatas == { <<>>, << 7 >>, << 7, 8, 9 >>, << 7, 8, 9, 10, 11 >> }

RawInit ==
    /\ cObj \in { [data |-> d, addr |-> 0] : d \in RawDatas }
    /\ cOut = <<>>
    /\ cBack = <<>>
    /\ cPc = "raw"
    /\ BspIdle
    /\ FileIdle

\* RawData.read(length); read() is read(0)
RawDataRead ==
    /\ cPc \in {"raw", "read", "seek"}
    /\ \E length \in 0..6 :
          /\ cObj.addr + length <= MaxAddr
          /\ cOut' = RawRead(cObj.data, cObj.addr, length)
          /\ cObj' = [cObj EXCEPT !.addr = IF length = 0 THEN @ ELSE @ + length]
          /\ cBack' = [data |-> cObj.data, addr |-> cObj.addr, length |-> length]
    /\ cPc' = "read"
    /\ UNCHANGED << bvars, fvars >>

\* RawData.seek(new_addr, whence)
RawDataSeek ==
    /\ cPc \in {"raw", "read", "seek"}
    /\ \E new_addr \in -2..6, whence \in 0..2 :
          /\ cObj' = [cObj EXCEPT !.addr = IF whence = 1 THEN @ + new_addr
                                            ELSE IF whence = 2 THEN Len(cObj.data) - new_addr
                                            ELSE new_addr]
          /\ cObj'.addr <= MaxAddr /\ cObj'.addr >= -MaxAddr
          /\ cBack' = [data |-> cObj.data, addr |-> cObj.addr, length |-> 0]
    /\ cPc' = "seek"
    /\ UNCHANGED << cOut, bvars, fvars >>

RawNext ==
    \/ RawDataRead
    \/ RawDataSeek

SpecRaw == RawInit /\ [][RawNext]_vars

(***************************************************************************)
(* Face of src/volition/pof.py.  An Edge is the set of the positions of    *)
(* its vertices (Edge.verts, a frozenset of Vertex objects that are equal  *)
(* when their co is); cObj is the edge list, cOut the outcome of           *)
(* Face(edge_list): the exception raised and the Face made.                *)
(***************************************************************************)
Positions == { <<0, 0, 0>>, <<3, 0, 0>>, <<0, 3, 0>>, <<0, 0, -6>> }

Edges == { {a, b} : a \in Positions, b \in Positions }

EdgeLists == UNION { [1..n -> Edges] : n \in 0..MaxEdges }

\* lines 514-516: the set of FaceVert objects of the edges
FaceVerts(edge_list) == UNION { edge_list[i] : i \in 1..Len(edge_list) }

NotTriangleFew(vert_list) == Cardinality(vert_list) < 3

\* line 517
NotTriangle(vert_list) == Cardinality(vert_list) # 3

\* the orders in which a set is iterated
Orders(S) == { f \in [1..Cardinality(S) -> S] : \A x \in S : \E i \in DOMAIN f : f[i] = x }

\* lines 534-582 for the vertices in the order the set gives them
FaceOf(edge_list, verts) ==
    LET n == Len(verts)
        nxt(i) == (i % n) + 1
        center == [a \in 1..3 |-> SumSeq([i \in 1..n |-> verts[i][a]]) \div 3]
        c_dist == { IsqrtFrom((center[1] - verts[i][1]) * (center[1] - verts[i][1])
                              + (center[2] - verts[i][2]) * (center[2] - verts[i][2])
                              + (center[3] - verts[i][3]) * (center[3] - verts[i][3]), 0) :
                        i \in 1..n }
    IN  [edges |-> { edge_list[i] : i \in 1..Len(edge_list) },
         vert_list |-> { verts[i] : i \in 1..n },
         center |-> center,
         normal |-> << SumSeq([i \in 1..n |-> (verts[i][2] - verts[nxt(i)][2])
                                               * (verts[i][3] - verts[nxt(i)][3])]),
                       SumSeq([i \in 1..n |-> (verts[i][3] - verts[nxt(i)][3])
                                               * (verts[i][1] - verts[nxt(i)][1])]),
                       SumSeq([i \in 1..n |-> (verts[i][1] - verts[nxt(i)][1])
                                               * (verts[i][2] - verts[nxt(i)][2])]) >>,
         radius |-> SetMax(c_dist)]

FaceInit ==
    /\ cObj \in EdgeLists
    /\ cOut = <<>>
    /\ cBack = <<>>
    /\ cPc = "edges"
    /\ BspIdle
    /\ FileIdle

\* Face(edge_list) raises
FaceRefuse ==
    /\ cPc = "edges"
    /\ NotTriangle(FaceVerts(cObj))
    /\ cOut' = [err |-> "GeometryError", face |-> <<>>]
    /\ cPc' = "face"
    /\ UNCHANGED << cObj, cBack, bvars, fvars >>

\* Face(edge_list) returns
FaceMake ==
    /\ cPc = "edges"
    /\ ~NotTriangle(FaceVerts(cObj))
    /\ \E verts \in Orders(FaceVerts(cObj)) :
          cOut' = [err |-> "none", face |-> FaceOf(cObj, verts)]
    /\ cPc' = "face"
    /\ UNCHANGED << cObj, cBack, bvars, fvars >>

FaceNext ==
    \/ FaceRefuse
    \/ FaceMake

SpecFace == FaceInit /\ [][FaceNext]_vars

(***************************************************************************)
(* read_pof of a file of known chunks, then get_chunk_list and write_pof   *)
(* on the model read.                                                      *)
(***************************************************************************)
\* an EyeChunk with n eye points
EyeObj(pof_ver, tag, n) ==
    [cls |-> "EyeChunk", CHUNK_ID |-> tag, pof_ver |-> pof_ver,
     sobj_num |-> [i \in 1..n |-> 0],
     eye_offset |-> [i \in 1..n |-> <<0, 40, 0>>],
     eye_normal |-> [i \in 1..n |-> <<0, 0, 1>>]]

\* chunk lists as above, with an eye-point chunk at the end or without one
KnownSources ==
    UNION { { [pof_ver |-> pv, chunks |-> cl \o eye, at |-> 0, unknown |-> <<>>,
               magic |-> Magic, version |-> pv] :
                 cl \in ReadLists(pv),
                 eye \in {<<>>} \cup { << EyeObj(pv, tag, n) >> :
                                          tag \in {" EYE", "EYE "}, n \in 0..2 } } :
            pv \in Versions }

KnownInit ==
    /\ fSrc \in KnownSources
    /\ fTarget = fSrc.version
    /\ fModel = <<>>
    /\ fPrev = <<>>
    /\ fErr = "none"
    /\ fOut1 = FileOf(fSrc, <<>>)
    /\ fOut2 = <<>>
    /\ fPc = "init"
    /\ BspIdle
    /\ CodecIdle

\* read_pof on the file
FileReadKnown ==
    /\ fPc = "init"
    /\ LET r == ReadPof(fOut1)
       IN  fModel' = r.m /\ fErr' = r.err
    /\ fPc' = "read"
    /\ UNCHANGED << fSrc, fTarget, fPrev, fOut1, fOut2, bvars, cvars >>

\* polymodel.get_chunk_list() on the model read; fPrev is the list returned
FileListChunks ==
    /\ fPc = "read" /\ fErr = "none"
    /\ IF NoOrder(fModel)
       THEN fErr' = "KeyError" /\ fPrev' = <<>>
       ELSE fErr' = "none" /\ fPrev' = get_chunk_list(fModel)
    /\ fPc' = "listed"
    /\ UNCHANGED << fSrc, fTarget, fModel, fOut1, fOut2, bvars, cvars >>

\* write_pof(polymodel, fTarget) on the model read
FileWriteKnown ==
    /\ fPc = "listed"
    /\ LET w == WritePof(fModel, fTarget)
       IN  fModel' = w.m /\ fErr' = w.err /\ fOut2' = w.bytes
    /\ fPc' = "rewritten"
    /\ UNCHANGED << fSrc, fTarget, fPrev, fOut1, bvars, cvars >>

KnownNext ==
    \/ FileReadKnown
    \/ FileListChunks
    \/ FileWriteKnown

SpecKnown == KnownInit /\ [][KnownNext]_vars

(***************************************************************************)
(* ModelChunk.get_mesh.  cObj is self.bsp_tree, cOut the outcome: the      *)
(* exception raised and the Mesh returned.                                 *)
(***************************************************************************)
\* the nodes of a tree: a DefpointsBlock as read_chunk fills it in and one
\* as set_mesh does, which has no norm_counts
MeshNodes ==
    { EndBlock, DefpointsRead(Payload(DefpointsWrite(DefpointsObj))), DefpointsObj,
      TexpolyOf(Palette[1]), FlatpolyObj(<<0, 1, 2>>), SortnormObj(220),
      BoundboxObj(<<-40, -40, -40>>, <<80, 80, 40>>) }

MeshTrees == UNION { [1..n -> MeshNodes] : n \in 0..MaxNodes }

\* lines 1510-1518: the nodes the first loop keeps
SelectNodes(tree, ids) ==
    LET keep == {i \in 1..Len(tree) : tree[i].CHUNK_ID \in ids}
        F[i \in 0..Len(tree)] ==
            IF i = 0 THEN <<>>
            ELSE IF i \in keep THEN Append(F[i - 1], tree[i]) ELSE F[i - 1]
    IN  F[Len(tree)]

\* lines 1520-1542 for the Defpoints node seen last and the polygon nodes
MeshOf(defpoints, raw_faces) ==
    [verts |-> defpoints.vert_list,
     num_norms |-> defpoints.norm_counts,
     faces |-> [i \in 1..Len(raw_faces) |-> raw_faces[i].vert_list],
     uv |-> [i \in 1..Len(raw_faces) |->
               IF raw_faces[i].CHUNK_ID = 2
               THEN [j \in 1..Len(raw_faces[i].vert_list) |-> <<0, 0>>]
               ELSE [j \in 1..Len(raw_faces[i].u) |-> << raw_faces[i].u[j], raw_faces[i].v[j] >>]],
     tex_ids |-> [i \in 1..Len(raw_faces) |->
                    IF raw_faces[i].CHUNK_ID = 2 THEN -1 ELSE raw_faces[i].texture_id]]

\* ModelChunk.get_mesh: node.norm_counts of a Defpoints node without it is
\* AttributeError, and without a Defpoints node vert_list is not bound
ModelGetMesh(tree) ==
    IF \E i \in 1..Len(tree) :
          tree[i].CHUNK_ID = 1 /\ "norm_counts" \notin DOMAIN tree[i]
    THEN [err |-> "AttributeError", mesh |-> <<>>]
    ELSE IF SelectNodes(tree, {1}) = <<>>
      THEN [err |-> "UnboundLocalError", mesh |-> <<>>]
    ELSE [err |-> "none",
          mesh |-> MeshOf(SelectNodes(tree, {1})[Len(SelectNodes(tree, {1}))],
                          SelectNodes(tree, {2, 3}))]

MeshInit ==
    /\ cObj \in MeshTrees
    /\ cOut = <<>>
    /\ cBack = <<>>
    /\ cPc = "tree"
    /\ BspIdle
    /\ FileIdle

\* model.get_mesh()
MeshGet ==
    /\ cPc = "tree"
    /\ cOut' = ModelGetMesh(cObj)
    /\ cPc' = "mesh"
    /\ UNCHANGED << cObj, cBack, bvars, fvars >>

MeshNext == MeshGet

SpecMesh == MeshInit /\ [][MeshNext]_vars

(***************************************************************************)
(* ModelChunk.set_mesh.  cObj is the mesh m, cOut the outcome: the         *)
(* exception raised and the attributes the call has set on the chunk.      *)
(***************************************************************************)
\* a Mesh as the exporter hands it over; calc_fradii computes the radii but
\* does not store them, so m.fradii exists only if the caller assigned it
MeshObj(ks, has_fradii) ==
    [verts |-> VertTable,
     vnorms |-> [i \in 1..Len(VertTable) |-> << <<0, 0, 400>> >>],
     face_list |-> [i \in 1..Len(ks) |-> Palette[ks[i]].vert_list],
     centers |-> [i \in 1..Len(ks) |-> Palette[ks[i]].center],
     has_fradii |-> has_fradii]

\* lines 1561-1563: DefpointsBlock.set_mesh
SetMeshDefpoints(m) ==
    [CHUNK_ID |-> 1, vert_list |-> m.verts, vert_norms |-> m.vnorms]

\* lines 1566-1578: the initial polylist
SetMeshFaces(m) ==
    [i \in 1..Len(m.face_list) |->
        [id |-> i, CHUNK_ID |-> 3, center |-> m.centers[i], vert_list |-> m.face_list[i]]]

\* a call of a method that takes max_pnt and min_pnt
SplitPlaneCall(args) ==
    IF Len(args) # 2 THEN "TypeError" ELSE "none"

\* ModelChunk.set_mesh: every call raises before line 1581, with
\* self._defpoints as the only attribute set
ModelSetMesh(m) ==
    LET chunk == [defpoints |-> SetMeshDefpoints(m)]
        face_list == SetMeshFaces(m)
    IN  IF face_list # <<>> /\ ~m.has_fradii
        THEN [err |-> "AttributeError", chunk |-> chunk]             \* line 1571
        ELSE IF face_list = <<>>
        THEN [err |-> "ValueError", chunk |-> chunk]                 \* line 1579
        ELSE [err |-> SplitPlaneCall(<< face_list >>), chunk |-> chunk]   \* line 1580

SetMeshInit ==
    /\ \E ks \in BspInputs, has_fradii \in BOOLEAN : cObj = MeshObj(ks, has_fradii)
    /\ cOut = <<>>
    /\ cBack = <<>>
    /\ cPc = "mesh"
    /\ BspIdle
    /\ FileIdle

\* model.set_mesh(m)
SetMesh ==
    /\ cPc = "mesh"
    /\ cOut' = ModelSetMesh(cObj)
    /\ cPc' = "set"
    /\ UNCHANGED << cObj, cBack, bvars, fvars >>

SetMeshNext == SetMesh

SpecSetMesh == SetMeshInit /\ [][SetMeshNext]_vars

(***************************************************************************)
(* Mesh.calculate_sharp_edges of volition/pof.py, on a mesh whose indexes  *)
(* _make_index has built.  cObj is the edge list: for every edge its       *)
(* adjacent faces (efi), and for every face its normal and its vertices in *)
(* the order of vert_list, each with whether it is a vertex of the edge    *)
(* (v.index in evi[i]) and the vertex normal the face selects              *)
(* (vert_list[v.index].normals[v.normal]).  One length unit is 0.0025, so  *)
(* the tolerance 0.1 is 40 units.  cOut is the exception raised and the    *)
(* sharp flag of every edge, True as Edge.__init__ leaves it.              *)
(***************************************************************************)
\* line 320 for all components: (f - 0.1) < t < (f + 0.1)
Agrees(this_normal, face_normal) ==
    \A a \in 1..3 :
        face_normal[a] - Tolerance < this_normal[a] /\ this_normal[a] < face_normal[a] + Tolerance

\* lines 315-324, the loop over the vertices of a face from vertex j on.
\* rebound: the inner loop "for t, f in zip(...)" has run, so that f is a
\* component of the face normal, a float, and face_list[f] is TypeError.
RECURSIVE SharpVerts(_, _, _)
SharpVerts(face, j, rebound) ==
    IF j > Len(face.verts) THEN "sharp"
    ELSE IF ~face.verts[j].on_edge THEN SharpVerts(face, j + 1, rebound)
    ELSE IF rebound THEN "TypeError"
    ELSE IF Agrees(face.verts[j].normal, face.normal) THEN SharpVerts(face, j + 1, TRUE)
    ELSE "flat"

\* lines 314-326, the loop over the faces of an edge from face k on
RECURSIVE SharpFaces(_, _)
SharpFaces(faces, k) ==
    IF k > Len(faces) THEN "sharp"
    ELSE IF SharpVerts(faces[k], 1, FALSE) = "sharp" THEN SharpFaces(faces, k + 1)
    ELSE SharpVerts(faces[k], 1, FALSE)

\* lines 311-328, the loop over the edges from edge i on
RECURSIVE SharpEdges(_, _, _)
SharpEdges(edge_list, i, flags) ==
    IF i > Len(edge_list) THEN [err |-> "none", sharp |-> flags]
    ELSE IF SharpFaces(edge_list[i], 1) = "TypeError"
    THEN [err |-> "TypeError", sharp |-> flags]
    ELSE SharpEdges(edge_list, i + 1,
                    [flags EXCEPT ![i] = (SharpFaces(edge_list[i], 1) = "sharp")])

calculate_sharp_edges(edge_list) ==
    SharpEdges(edge_list, 1, [i \in 1..Len(edge_list) |-> TRUE])

\* the normals a face may select for a vertex of the edge: the face normal,
\* one within the tolerance, one off by just the tolerance, one far off
VertNormals == { <<0, 0, 400>>, <<0, 30, 380>>, <<0, 40, 400>>, <<400, 0, 0>> }

\* a face on the edge: the vertex off the edge is its first or its last
SharpFaceObjs ==
    { [normal |-> <<0, 0, 400>>,
       verts |-> IF first
                 THEN << [on_edge |-> FALSE, normal |-> <<0, 0, 400>>],
                         [on_edge |-> TRUE, normal |-> n1],
                         [on_edge |-> TRUE, normal |-> n2] >>
                 ELSE << [on_edge |-> TRUE, normal |-> n1],
                         [on_edge |-> TRUE, normal |-> n2],
                         [on_edge |-> FALSE, normal |-> <<0, 0, 400>>] >>] :
        n1 \in VertNormals, n2 \in VertNormals, first \in BOOLEAN }

\* one edge with up to two faces, or two edges with up to one face each
SharpMeshes ==
    { << fs >> : fs \in UNION { [1..n -> SharpFaceObjs] : n \in 0..2 } }
    \cup { << f1, f2 >> : f1 \in UNION { [1..n -> SharpFaceObjs] : n \in 0..1 },
                          f2 \in UNION { [1..n -> SharpFaceObjs] : n \in 0..1 } }

SharpInit ==
    /\ cObj \in SharpMeshes
    /\ cOut = <<>>
    /\ cBack = <<>>
    /\ cPc = "mesh"
    /\ BspIdle
    /\ FileIdle

\* mesh.calculate_sharp_edges()
CalcSharp ==
    /\ cPc = "mesh"
    /\ cOut' = calculate_sharp_edges(cObj)
    /\ cPc' = "marked"
    /\ UNCHANGED << cObj, cBack, bvars, fvars >>

SharpNext == CalcSharp

SpecSharp == SharpInit /\ [][SharpNext]_vars

(***************************************************************************)
(* Properties of the BSP builder (checked under SpecBsp).                  *)
(***************************************************************************)
\* the bytes of a node of bsp_tree as ModelChunk.write_chunk emits them
NodeBytes(n) == IF n.CHUNK_ID = 3 THEN TexpolyWrite(TexpolyOf(n)) ELSE BlockWrite(n)

\* byte offset, in the written BSP data, of the first byte of node j
NodeOffset(j) == SumSeq([i \in 1..(j - 1) |-> Len(NodeBytes(bsp_tree[i]))])

\* the builder is at a point where every stored back_offset is final
Settled == stack = <<>> \/ Top.pc = "back" \/ bstatus # "running"

SortnormsWithBack ==
    {i \in 1..Len(bsp_tree) : bsp_tree[i].CHUNK_ID = 4 /\ bsp_tree[i].back_set}

\* C2 as stated: back_offset bytes forward from the position right after the
\* node's 3 reserved EndBlock markers is the first byte of the back subtree.
C2_BackOffsetFromMarkers ==
    Settled =>
        \A i \in SortnormsWithBack :
            NodeOffset(i + 4) + bsp_tree[i].back_offset = NodeOffset(backStart[i])

\* C2 (amended): back_offset bytes forward from the first byte of the SortNorm
\* node itself is the first byte of the first node of its back subtree, and
\* that node exists.
C2_BackOffsetFromNode ==
    Settled =>
        \A i \in SortnormsWithBack :
            /\ NodeOffset(i) + bsp_tree[i].back_offset = NodeOffset(backStart[i])
            /\ (bstatus = "done" => backStart[i] <= Len(bsp_tree))

C2_Witness ==
    /\ bstatus = "done"
    /\ \E i \in SortnormsWithBack : backStart[i] >= i + 8

\* C6: the front and back lists of every split that leads to a SortNorm
\* partition the frame's face list: the counts add up, no face is on both
\* sides, and every face is on one of them.
C6_PartitionComplete ==
    \A k \in 1..Len(stack) :
        LET f == stack[k]
        IN  f.pc \in {"emit", "front", "back"} =>
              /\ Len(f.front_list) + Len(f.back_list) = Len(f.face_list)
              /\ FaceIds(f.front_list) \cap FaceIds(f.back_list) = {}
              /\ FaceIds(f.front_list) \cup FaceIds(f.back_list) = FaceIds(f.face_list)
              /\ Cardinality(FaceIds(f.front_list)) = Len(f.front_list)
              /\ Cardinality(FaceIds(f.back_list)) = Len(f.back_list)

C6_Witness ==
    \E k \in 1..Len(stack) : stack[k].pc = "back" /\ stack[k].via = "balance"

SameCentroids(fl) == \A i \in 1..Len(fl) : fl[i].center = fl[1].center

\* C7: a call on three or more faces with one common centroid never leaves
\* the recovery loop by a split, makes at most 500 re-partition attempts, and
\* returns with the faces as one leaf run; the build of such an input ends
\* with BoundingBox, the faces, EndBlock and no SortNorm.
C7_DegenerateTerminates ==
    /\ \A k \in 1..Len(stack) :
          LET f == stack[k]
          IN  (Len(f.face_list) >= 3 /\ SameCentroids(f.face_list)) =>
                 /\ f.pc \in {"start", "recover"}
                 /\ f.real_tries <= MaxRealTries
    /\ (Len(bInput) >= 3 /\ SameCentroids(bInput)) =>
          /\ bstatus # "RecursionError"
          /\ stack = <<>> =>
                /\ bstatus = "done"
                /\ Len(bsp_tree) = Len(bInput) + 2
                /\ bsp_tree[1].CHUNK_ID = 5
                /\ SubSeq(bsp_tree, 2, Len(bInput) + 1) = bInput
                /\ bsp_tree[Len(bsp_tree)].CHUNK_ID = 0

C7_Witness ==
    /\ Len(bInput) >= 3 /\ SameCentroids(bInput)
    /\ bstatus = "done"
    /\ Len(bsp_tree) = Len(bInput) + 2

\* the split of a frame is unbalanced in the sense of the balance loop, in
\* either direction, or has an empty side
StillUnbalanced(f) ==
    \/ 20 * (f.fnum - f.bnum) > (f.fnum + f.bnum) + 20
    \/ 20 * (f.bnum - f.fnum) > (f.fnum + f.bnum) + 20
    \/ f.fnum = 0 \/ f.bnum = 0

\* C21: a frame that left the balance loop with its split still unbalanced
\* (in either direction) or with an empty side has emitted its faces as one
\* leaf run, so no frame of three or more faces that goes on to its SortNorm
\* node has such a split.
C21_UnbalancedIsLeafRun ==
    \A k \in 1..Len(stack) :
        LET f == stack[k]
        IN  (f.pc \in {"emit", "front", "back"} /\ f.via # "pair") => ~StillUnbalanced(f)

\* C22: _generate_tree_recursion terminates: every recursive call is made
\* on a non-empty list strictly shorter than its caller's list, in the
\* 2-face branch too, so the recursion never runs into the recursion limit.
C22_CallsShrink ==
    /\ bstatus # "RecursionError"
    /\ \A k \in 2..Len(stack) :
          /\ Len(stack[k].face_list) > 0
          /\ Len(stack[k].face_list) < Len(stack[k - 1].face_list)

\* the places of the polygon nodes of bsp_tree
PolyNodes == {i \in 1..Len(bsp_tree) : bsp_tree[i].CHUNK_ID \in {2, 3}}

\* C23: when _generate_tree_recursion(L) has returned, the polygon nodes of
\* bsp_tree are exactly the faces of L, each once, and every maximal run of
\* polygon nodes has a BoundingBox node before it and an EndBlock after it.
C23_FacesOnceInLeafRuns ==
    bstatus = "done" =>
        /\ Cardinality(PolyNodes) = Len(bInput)
        /\ \A k \in 1..Len(bInput) : \E i \in PolyNodes : bsp_tree[i] = bInput[k]
        /\ \A i \in PolyNodes :
              /\ i > 1 /\ bsp_tree[i - 1].CHUNK_ID \in {2, 3, 5}
              /\ i < Len(bsp_tree) /\ bsp_tree[i + 1].CHUNK_ID \in {0, 2, 3}

\* a build over a split and a build that fell back to one leaf run
C23_Witness ==
    /\ bstatus = "done"
    /\ Len(bInput) = MaxFaces
    /\ \E i \in 1..Len(bsp_tree) : bsp_tree[i].CHUNK_ID = 4
    /\ \E i \in PolyNodes : i + 1 \in PolyNodes

\* the attributes set_mesh has set on the chunk
ChunkAttrs == DOMAIN cOut.chunk

\* C25: after set_mesh(m) on a mesh with at least one face, bsp_tree starts
\* with the Defpoints block, the only one of the list, and ends with an
\* EndBlock, and center, min and max of the chunk are set from the bounding
\* box of all faces.
C25_SetMeshBuildsTree ==
    (cPc = "set" /\ cObj.face_list # <<>>) =>
        /\ cOut.err = "none"
        /\ {"bsp_tree", "center", "min", "max"} \subseteq ChunkAttrs
        /\ cOut.chunk.bsp_tree[1].CHUNK_ID = 1
        /\ \A i \in 2..Len(cOut.chunk.bsp_tree) : cOut.chunk.bsp_tree[i].CHUNK_ID # 1
        /\ cOut.chunk.bsp_tree[Len(cOut.chunk.bsp_tree)].CHUNK_ID = 0
        /\ cOut.chunk.max = GetBounds(SetMeshFaces(cObj)).max_pnt
        /\ cOut.chunk.min = GetBounds(SetMeshFaces(cObj)).min_pnt

\* every vertex of the edge agrees, on every face of the edge, with the
\* normal of the face
AllAgree(faces) ==
    \A k \in 1..Len(faces) : \A j \in 1..Len(faces[k].verts) :
        faces[k].verts[j].on_edge => Agrees(faces[k].verts[j].normal, faces[k].normal)

\* C28: calculate_sharp_edges marks an edge as not sharp exactly when every
\* vertex of the edge agrees within 0.1, on every face of the edge and in
\* every component, with the normal of the face, and as sharp otherwise.
C28_SharpIffDisagree ==
    cPc = "marked" =>
        /\ cOut.err = "none"
        /\ \A i \in 1..Len(cObj) : cOut.sharp[i] = ~AllAgree(cObj[i])

(***************************************************************************)
(* Properties of the shield tree builder (checked under SpecShield).       *)
(***************************************************************************)
ShieldLeaves == {i \in 1..Len(shield_tree) : shield_tree[i].node_type = 1}

\* C24: after make_shield_collision_tree every face index of the mesh is in
\* the face_list of exactly one ShieldLeaf node, and the face_list of each
\* leaf holds just the faces of the _add_faces call that made the leaf.
C24_LeavesOwnTheirFaces ==
    bstatus = "done" =>
        /\ \A k \in 1..Len(bInput) :
              Cardinality({i \in ShieldLeaves :
                  \E j \in 1..Len(LeafFaceList(shield_tree[i])) :
                      LeafFaceList(shield_tree[i])[j] = bInput[k].face_idx}) = 1
        /\ \A i \in ShieldLeaves : LeafFaceList(shield_tree[i]) = shield_tree[i].passed

(***************************************************************************)
(* Properties of the chunk codecs (checked under SpecCodec).               *)
(***************************************************************************)
\* the attributes of object c that its format holds at the version of c
Persisted(c) ==
    DOMAIN c
    \ ({"cls", "has_mass", "has_xsect", "has_lights", "has_props", "has_tree"}
        \cup (IF IsChunk(c) /\ c.cls = "HeaderChunk" /\ c.pof_ver < 2014
                THEN {"cross_section_depth", "cross_section_radius"} ELSE {})
        \cup (IF IsChunk(c) /\ c.cls = "FuelChunk" /\ c.pof_ver < 2117
                THEN {"thruster_properties"} ELSE {}))

\* object r has every persisted attribute of c, with the value it has in c
SameFields(c, r) == \A f \in Persisted(c) : f \in DOMAIN r /\ r[f] = c[f]

\* C3: for every chunk that write_chunk writes, the value in the length field
\* is len(chunk) and equals the number of bytes emitted after the 8-byte
\* tag and length.
C3_LenIsPayload ==
    (cPc \in {"written", "read"} /\ IsChunk(cObj) /\ cOut.err = "none") =>
        /\ unpack_int(SubSeq(cOut.bytes, 5, 8)) = ChunkLen(cObj)
        /\ ChunkLen(cObj) = Len(cOut.bytes) - 8

\* C4: read_chunk on the bytes write_chunk emitted for an object gives an
\* object with the same value in every persisted attribute.
C4_ReadReproduces ==
    cPc = "read" => SameFields(cObj, cBack)


\* C19: for a BSP block of any type write_chunk returns bytes whose length
\* field is their number, the 8 bytes of id and length included, and
\* len(block) is that number
C19_BlockLenIsBytes ==
    (cPc \in {"written", "read"} /\ ~IsChunk(cObj)) =>
        /\ cOut.err = "none"
        /\ unpack_int(SubSeq(cOut.bytes, 5, 8)) = Len(cOut.bytes)
        /\ BlockLen(cObj) = Len(cOut.bytes)


\* the first node of the tree that is no end node is no Defpoints node
FirstIsNotDefpoints(tree) ==
    \E i \in 1..Len(tree) :
        /\ tree[i].CHUNK_ID \notin {0, 1}
        /\ \A j \in 1..(i - 1) : tree[j].CHUNK_ID = 0

\* C20: get_mesh raises when the first node that is no end node is no
\* Defpoints node, and returns a mesh only when a Defpoints node comes
\* before every polygon node
C20_DefpointsFirst ==
    cPc = "mesh" =>
        /\ FirstIsNotDefpoints(cObj) => cOut.err # "none"
        /\ cOut.err = "none" =>
              \A i \in 1..Len(cObj) :
                  cObj[i].CHUNK_ID \in {2, 3} =>
                      \E j \in 1..(i - 1) : cObj[j].CHUNK_ID = 1

(***************************************************************************)
(* Properties of verify_pof, write_pof and read_pof.                       *)
(***************************************************************************)
\* the header chunk of the chunk list the model is made of
SrcHeader ==
    fSrc.chunks[CHOOSE i \in 1..Len(fSrc.chunks) : fSrc.chunks[i].CHUNK_ID \in {"HDR2", "OHDR"}]

\* the submodel chunks of the chunk list the model is made of
SrcSubmodels ==
    {i \in 1..Len(fSrc.chunks) : fSrc.chunks[i].CHUNK_ID \in {"OBJ2", "SOBJ"}}

\* a submodel is its own parent, or its parent is not in the submodel map
BadParent(submodels) ==
    \E i \in 1..Len(submodels) :
        \/ submodels[i].parent_id = submodels[i].model_id
        \/ /\ submodels[i].parent_id # -1
           /\ \A j \in 1..Len(submodels) : submodels[j].model_id # submodels[i].parent_id

\* C1: the bytes write_pof returns for a model it accepts are read back by
\* read_pof, and write_pof of the model read returns the same bytes
C1_WriteReadWrite ==
    /\ fPc = "reread" => fErr = "none"
    /\ fPc = "rewritten" => (fErr = "none" /\ fOut2 = fOut1)

\* C5: a second verify_pof at the same version succeeds and leaves the keys
\* of the chunks, the header and submodel tags, the header fields and the
\* submodels as they are, and a second write_pof returns the bytes of the first
C5_VerifyIdempotent ==
    /\ fPc = "verified2" =>
          /\ fErr = "none"
          /\ DOMAIN fModel.chunks = DOMAIN fPrev.chunks
          /\ fModel.header = fPrev.header
          /\ fModel.chunks[fModel.header] = fPrev.chunks[fPrev.header]
          /\ fModel.submodels = fPrev.submodels
    /\ fPc = "written2" => (fErr = "none" /\ fOut2 = fOut1)

C5_Witness ==
    /\ fPc = "written2"
    /\ fSrc.pof_ver < 2116 /\ fTarget >= 2116
    /\ SrcHeader.mass = 50
    /\ Len(fOut2) > 8

\* C8: verify_pof raises InvalidChunkError on a model with a submodel that is
\* its own parent or whose parent is not in the submodel map
C8_BadParentRaises ==
    (fPc = "verified" /\ BadParent(fPrev.submodels)) => fErr = "InvalidChunkError"

\* C9: a header read at 2114 with mass 50 has mass 4.65 * 50^2 / 3 after
\* verify_pof(2117) and mass 50 again after verify_pof(2114); the mass is
\* converted when the target version is on the other side of the threshold
\* from the version the header was read at
C9_MassConverted ==
    /\ (fPc = "verified" /\ fErr = "none" /\ fSrc.pof_ver = 2114 /\ fTarget = 2117
            /\ SrcHeader.mass = 50) =>
          fModel.chunks[fModel.header].mass = MassToArea(50)
    /\ (fPc = "back" /\ fErr = "none" /\ fSrc.pof_ver = 2114 /\ fTarget = 2117
            /\ SrcHeader.mass = 50) =>
          fModel.chunks[fModel.header].mass = 50
    /\ (fPc = "verified" /\ fErr = "none" /\ fSrc.pof_ver < 2009 /\ fTarget >= 2009) =>
          fModel.chunks[fModel.header].mass = MassToArea(SrcHeader.mass)

\* C10: a chunk list with two submodel chunks of one model_id is refused by
\* verify_pof and write_pof with InvalidChunkError
C10_DuplicateIdRaises ==
    (/\ fPc \in {"verified", "written"}
     /\ \E i, j \in SrcSubmodels :
            i # j /\ fSrc.chunks[i].model_id = fSrc.chunks[j].model_id) =>
        fErr = "InvalidChunkError"


\* C11: after a verify_pof that has returned, the chunks hold SLDC exactly
\* when the version is 2117 or later and they hold SHLD
C11_TreeIffShield ==
    (fPc \in {"verified", "verified2"} /\ fErr = "none") =>
        ("SLDC" \in DOMAIN fModel.chunks
            <=> (fTarget >= 2117 /\ "SHLD" \in DOMAIN fModel.chunks))

C11_Witness ==
    /\ fPc = "verified" /\ fErr = "none"
    /\ "SHLD" \in DOMAIN fModel.chunks
    /\ "SLDC" \in DOMAIN fPrev.chunks
    /\ "SLDC" \notin DOMAIN fModel.chunks


\* the chunks of the list are the header, then every submodel, in one run
RunAfterHeader(chunk_list, n) ==
    \E h \in 1..Len(chunk_list) :
        /\ chunk_list[h].cls = "HeaderChunk"
        /\ \A i \in 1..Len(chunk_list) :
              chunk_list[i].cls = "ModelChunk" <=> (h < i /\ i <= h + n)

\* C12: in the chunk list write_pof writes, the submodels are one run that
\* starts right after the header
C12_SubmodelsAfterHeader ==
    (fPc = "written" /\ fErr = "none") =>
        RunAfterHeader(get_chunk_list(fModel), Len(fModel.submodels))


\* C13: read_pof of a file with a chunk of an unknown tag among its chunks
\* raises nothing and returns the model it returns for the file without
\* that chunk
C13_UnknownSkipped ==
    (fPc = "skipped" /\ fSrc.unknown # <<>>) =>
        /\ fErr = "none"
        /\ fPrev.err = "none"
        /\ fModel = fPrev.m

C13_Witness ==
    /\ fPc = "skipped" /\ fErr = "none"
    /\ Len(fSrc.unknown) > 8
    /\ fSrc.at = 1
    /\ Len(fModel.submodels) = 2

\* C14: read_pof raises FileFormatError and returns no model exactly when
\* the first four bytes are not PSPO or the version is above 2117
C14_MagicAndVersion ==
    fPc = "skipped" =>
        /\ fErr = "FileFormatError" <=> (fSrc.magic # Magic \/ fSrc.version > 2117)
        /\ fErr = "FileFormatError" => fModel = <<>>
        /\ fErr # "FileFormatError" => fModel # <<>>

C14_Witness ==
    /\ fPc = "skipped"
    /\ fSrc.magic = Magic /\ fSrc.version = 2118
    /\ fErr = "FileFormatError"



\* the submodel references of the turret and path chunks of a model
TurretRefs(m) ==
    UNION { { m.chunks[k].barrel_sobj[i] : i \in 1..Len(m.chunks[k].barrel_sobj) }
            \cup { m.chunks[k].base_sobj[i] : i \in 1..Len(m.chunks[k].base_sobj) } :
                k \in DOMAIN m.chunks \cap {"TGUN", "TMIS"} }
    \cup UNION { UNION { UNION { { m.chunks[k].turret_sobj_num[i][j][n] :
                                      n \in 1..Len(m.chunks[k].turret_sobj_num[i][j]) } :
                                  j \in 1..Len(m.chunks[k].turret_sobj_num[i]) } :
                          i \in 1..Len(m.chunks[k].turret_sobj_num) } :
                    k \in DOMAIN m.chunks \cap {"PATH"} }

\* a reference is past the submodels, or to debris or a detail level
BadTurretRef(m) ==
    \E t \in TurretRefs(m) :
        \/ t >= Len(m.submodels)
        \/ \E i \in 1..Len(m.chunks[m.header].sobj_debris) :
              m.chunks[m.header].sobj_debris[i] = t
        \/ \E i \in 1..Len(m.chunks[m.header].sobj_detail_levels) :
              m.chunks[m.header].sobj_detail_levels[i] = t

\* C17: verify_pof raises InvalidChunkError when a turret or path chunk
\* refers to a submodel that is not there, is debris or is a detail level,
\* and returns only when there is no such reference
C17_TurretRefsChecked ==
    (fPc = "verified" /\ DOMAIN fPrev.chunks \cap {"TGUN", "TMIS", "PATH"} # {}) =>
        /\ BadTurretRef(fPrev) => fErr = "InvalidChunkError"
        /\ fErr = "none" => ~BadTurretRef(fPrev)

\* a parent name of the PATH chunk is not empty and no submodel has it
UnknownParent(m) ==
    \E i \in 1..Len(m.chunks["PATH"].path_parents) :
        /\ m.chunks["PATH"].path_parents[i] # <<>>
        /\ \A j \in 1..Len(m.submodels) :
              m.submodels[j].name # m.chunks["PATH"].path_parents[i]

\* C18: for a model with a PATH chunk (and no turret reference in it)
\* verify_pof returns when every parent name is empty or the name of a
\* submodel, and raises InvalidChunkError otherwise
C18_PathParentsChecked ==
    (fPc = "verified" /\ "PATH" \in DOMAIN fPrev.chunks /\ TurretRefs(fPrev) = {}) =>
        /\ ~UnknownParent(fPrev) => fErr = "none"
        /\ UnknownParent(fPrev) => fErr = "InvalidChunkError"

\* C26: when verify_pof raises InvalidChunkError the model is as it was
\* before the call: pof_ver, the pof_ver of every chunk, the header and
\* submodel tags, header.num_subobjects and the chunk map.
C26_FailedVerifyKeepsModel ==
    (fPc = "verified" /\ fErr = "InvalidChunkError") =>
        /\ fModel.pof_ver = fPrev.pof_ver
        /\ fModel.header = fPrev.header
        /\ fModel.chunks = fPrev.chunks
        /\ fModel.submodels = fPrev.submodels

\* C29: after verify_pof has succeeded, header.min_bounding is the minimum,
\* axis by axis, of the min corners of the submodels, and header.max_bounding
\* the maximum of their max corners.
C29_HeaderBoundsEnclose ==
    (fPc = "verified" /\ fErr = "none") =>
        LET subs == fModel.submodels
            header == fModel.chunks[fModel.header]
        IN  /\ header.min_bounding =
                  [a \in 1..3 |-> SetMin({subs[i].min[a] : i \in 1..Len(subs)})]
            /\ header.max_bounding =
                  [a \in 1..3 |-> SetMax({subs[i].max[a] : i \in 1..Len(subs)})]

\* C27: every key under which PolyModel.__init__ stores a chunk of a file
\* of known chunks, the key of the eye-point chunks included, is a key of
\* chunk_order, so that get_chunk_list and write_pof on the model read do
\* not raise KeyError.
C27_StoredKeysHaveOrder ==
    /\ (fPc = "read" /\ fErr = "none") => DOMAIN fModel.chunks \subseteq DOMAIN chunk_order
    /\ fPc \in {"listed", "rewritten"} => fErr # "KeyError"

(***************************************************************************)
(* Properties of RawData.                                                  *)
(***************************************************************************)
\* the bytes of data from address addr on, at most n of them
BytesFrom(data, addr, n) ==
    [i \in 1..(IF Len(data) - addr < n THEN Len(data) - addr ELSE n) |-> data[addr + i]]

\* C15: read(0) returns the whole data and leaves the address as it is;
\* read(n) with n > 0 returns the n bytes from the address on, fewer where
\* the data ends, and adds n to the address
C15_ReadWholeOrSlice ==
    cPc = "read" =>
        /\ cObj.data = cBack.data
        /\ cBack.length = 0 => (cOut = cBack.data /\ cObj.addr = cBack.addr)
        /\ cBack.length > 0 =>
              /\ cObj.addr = cBack.addr + cBack.length
              /\ cOut = PySlice(cBack.data, cBack.addr, cBack.addr + cBack.length)
              /\ (cBack.addr >= 0 /\ cBack.addr <= Len(cBack.data)) =>
                    cOut = BytesFrom(cBack.data, cBack.addr, cBack.length)
              /\ cBack.addr > Len(cBack.data) => cOut = <<>>

C15_Witness ==
    /\ cPc = "read"
    /\ cBack.length = 0 /\ cBack.addr = 2
    /\ cOut = << 7, 8, 9 >>


\* C30: after any sequence of read and seek calls the cursor is within the
\* data, 0 <= addr <= len(data), so that no read slices from a negative
\* position or from one past the end.
C30_CursorInBounds ==
    /\ cObj.addr >= 0
    /\ cObj.addr <= Len(cObj.data)

(***************************************************************************)
(* Properties of Face.                                                     *)
(***************************************************************************)
\* C16: Face(edge_list) raises GeometryError and makes no Face when the
\* edges have other than 3 positions between them, and makes a Face with a
\* radius of 0 or more from 3 edges with 3 positions between them
C16_FaceIsTriangle ==
    cPc = "face" =>
        /\ Cardinality(FaceVerts(cObj)) # 3 =>
              (cOut.err = "GeometryError" /\ cOut.face = <<>>)
        /\ (Len(cObj) = 3 /\ Cardinality(FaceVerts(cObj)) = 3) =>
              (cOut.err = "none" /\ cOut.face # <<>> /\ cOut.face.radius >= 0)

C16_Witness ==
    /\ cPc = "face"
    /\ Len(cObj) = 3 /\ Cardinality(FaceVerts(cObj)) = 3
    /\ \A i \in 1..3 : Cardinality(cObj[i]) = 2
    /\ cOut.err = "none" /\ cOut.face.radius > 0

====
